---------------------------- MODULE Spec2Model ----------------------------
(***************************************************************************)
(* A model of the asset engine of RoExtract: the index and task            *)
(* coordinator of src/src/logic.rs and the database backend of             *)
(* src/src/logic/sql_database.rs.  The directory backend                   *)
(* (logic/cache_directory.rs) is not among the sources; where an           *)
(* operation calls it, it is modelled from the specification and marked    *)
(* so.                                                                     *)
(*                                                                         *)
(* Bytes are numbers 0..255, byte strings are sequences of them, and an    *)
(* asset name is a sequence of one-character strings.                      *)
(***************************************************************************)
EXTENDS Integers, Sequences, FiniteSets, TLC

(***************************************************************************)
(* Bounds of the model.                                                    *)
(***************************************************************************)
\* refresh calls issued by the user interface
NumRefresh == 2
\* extract_dir / extract_all / clear_cache calls issued by the user interface
NumTasks == 2
\* swap_assets / copy_assets / read_asset calls issued against the stores
MaxOps == 2

(***************************************************************************)
(* Program constants.                                                      *)
(***************************************************************************)
\* substr(content, 1, 4096): the prefix of a row the listing pass inspects
PREFIX_LEN == 4096

\* Option and Result values: None (or Err) is the empty tuple, Some(x) (or
\* Ok(x)) the one-element tuple
None == <<>>

Some(x) == <<x>>

IsSome(o) == o # <<>>

Unwrap(o) == o[1]

Min(a, b) == IF a < b THEN a ELSE b

Range(s) == {s[i] : i \in 1..Len(s)}

(***************************************************************************)
(* Category, in the order of the enum (strum's iteration order).           *)
(***************************************************************************)
Category == <<"Music", "Sounds", "Images", "Ktx", "Rbxm", "All">>

(***************************************************************************)
(* The byte patterns, as ASCII.                                            *)
(***************************************************************************)
OggS == <<79, 103, 103, 83>>
ID3 == <<73, 68, 51>>
PNG == <<80, 78, 71>>
WEBP == <<87, 69, 66, 80>>
KTX == <<75, 84, 88>>
Roblox == <<60, 114, 111, 98, 108, 111, 120, 33>>
BinarySlash == <<98, 105, 110, 97, 114, 121, 47>>
ZSTD_MAGIC == <<40, 181, 47, 253>>

\* haystack.windows(len).position(|w| w == needle): the earliest offset
\* (0-based), or None; an empty needle is never found
bytes_search(haystack, needle) ==
  LET len == Len(needle)
      hits == {i \in 0..(Len(haystack) - len) :
                 SubSeq(haystack, i + 1, i + len) = needle}
  IN IF len > 0 /\ hits # {}
       THEN Some(CHOOSE i \in hits : \A j \in hits : i <= j)
       ELSE None

bytes_contains(haystack, needle) ==
  LET len == Len(needle)
  IN IF len > 0
       THEN \E i \in 0..(Len(haystack) - len) :
              SubSeq(haystack, i + 1, i + len) = needle
       ELSE FALSE

ConcreteHeaders(category) ==
  CASE category = "Music" -> <<OggS, ID3>>
    [] category = "Sounds" -> <<OggS, ID3>>
    [] category = "Ktx" -> <<KTX>>
    [] category = "Rbxm" -> <<Roblox>>
    [] category = "Images" -> <<PNG, WEBP>>

\* Category::iter().filter(|cat| cat != All).flat_map(get_headers), in order
RECURSIVE FlatHeaders(_)
FlatHeaders(cats) ==
  IF cats = <<>> THEN <<>>
  ELSE ConcreteHeaders(Head(cats)) \o FlatHeaders(Tail(cats))

\* get_headers: for All, every other category's headers in the enum's
\* order, blank ones removed (nothing else is removed)
get_headers(category) ==
  IF category = "All"
    THEN SelectSeq(FlatHeaders(SelectSeq(Category, LAMBDA c : c # "All")),
                   LAMBDA item : item # <<>>)
    ELSE ConcreteHeaders(category)

\* determine_category without the extra test on ID3
determine_category_plain(bytes) ==
  LET cats == SelectSeq(Category, LAMBDA c : c # "All" /\ c # "Music")
      Hit(c) == \E k \in 1..Len(get_headers(c)) :
                  bytes_contains(bytes, get_headers(c)[k])
      found == {k \in 1..Len(cats) : Hit(cats[k])}
  IN IF found = {} THEN "All"
     ELSE cats[CHOOSE k \in found : \A j \in found : k <= j]

\* determine_category: the first category other than Music and All one of
\* whose headers is found (ID3 only together with "binary/"), else All
determine_category(bytes) ==
  LET cats == SelectSeq(Category, LAMBDA c : c # "All" /\ c # "Music")
      Hit(c) == \E k \in 1..Len(get_headers(c)) :
                  LET header == get_headers(c)[k]
                  IN IF header = ID3
                       THEN bytes_contains(bytes, header)
                            /\ bytes_contains(bytes, BinarySlash)
                       ELSE bytes_contains(bytes, header)
      found == {k \in 1..Len(cats) : Hit(cats[k])}
  IN IF found = {} THEN "All"
     ELSE cats[CHOOSE k \in found : \A j \in found : k <= j]

(***************************************************************************)
(* zstd::stream::decode_all is a library call.  It is modelled by a frame  *)
(* format of the same shape: the magic number, one length byte, and the    *)
(* payload; a buffer that starts with the magic number and is no such      *)
(* frame fails to decode.                                                  *)
(***************************************************************************)
HasMagic(bytes) == Len(bytes) >= 4 /\ SubSeq(bytes, 1, 4) = ZSTD_MAGIC

ZstdDecodeAll(bytes) ==
  IF Len(bytes) >= 5 /\ bytes[5] = Len(bytes) - 5
    THEN Some(SubSeq(bytes, 6, Len(bytes)))
    ELSE None

\* the listing pass: decompress when the magic number is there and the
\* decoding succeeds, else keep the bytes
ScanDecompress(bytes) ==
  IF HasMagic(bytes) /\ IsSome(ZstdDecodeAll(bytes))
    THEN Unwrap(ZstdDecodeAll(bytes))
    ELSE bytes

(***************************************************************************)
(* hex::encode and hex::decode on row identifiers.                         *)
(***************************************************************************)
HexDigits == <<"0", "1", "2", "3", "4", "5", "6", "7", "8", "9",
               "a", "b", "c", "d", "e", "f">>

HexUpper == <<"0", "1", "2", "3", "4", "5", "6", "7", "8", "9",
              "A", "B", "C", "D", "E", "F">>

RECURSIVE HexEncode(_)
HexEncode(bytes) ==
  IF bytes = <<>> THEN <<>>
  ELSE <<HexDigits[(Head(bytes) \div 16) + 1], HexDigits[(Head(bytes) % 16) + 1]>>
       \o HexEncode(Tail(bytes))

IsHexDigit(c) == c \in Range(HexDigits) \cup Range(HexUpper)

HexVal(c) ==
  IF c \in Range(HexDigits)
    THEN (CHOOSE k \in 1..16 : HexDigits[k] = c) - 1
    ELSE (CHOOSE k \in 1..16 : HexUpper[k] = c) - 1

\* hex::decode: fails (None) on an odd length or a character that is no
\* hexadecimal digit
RECURSIVE HexDecodeEven(_)
HexDecodeEven(name) ==
  IF name = <<>> THEN <<>>
  ELSE <<HexVal(name[1]) * 16 + HexVal(name[2])>>
       \o HexDecodeEven(SubSeq(name, 3, Len(name)))

HexDecode(name) ==
  IF Len(name) % 2 = 0 /\ \A i \in 1..Len(name) : IsHexDigit(name[i])
    THEN Some(HexDecodeEven(name))
    ELSE None

(***************************************************************************)
(* The state.                                                              *)
(***************************************************************************)
VARIABLES
  FILE_LIST,           \* Vec<AssetInfo>: the shared index
  FILTERED_FILE_LIST,  \* Vec<AssetInfo>: the filtered index
  STATUS,              \* the status message: its key and arguments
  PROGRESS,            \* the progress fraction count/total, as <<count, total>>
  REQUEST_REPAINT,
  LIST_TASK_RUNNING,
  STOP_LIST_RUNNING,
  TASK_RUNNING,
  CONNECTION,          \* Option<Connection>: None, or Some of the open path
  connLock,            \* the holder of CONNECTION's mutex, or None
  db,                  \* the database file: None when it holds no files
                       \* table, else Some of the table's rows in order
  storageFolder,       \* whether the rbx-storage folder beside it exists
  cacheDir,            \* the directory backend's files, in order
  outDirs,             \* the destination directories created
  outFiles,            \* the files written: a set of <<path, bytes>>
  issued,              \* how many refresh calls the caller has issued
  lpc,                 \* each listing thread's position
  lloc,                \* each listing thread's locals
  tissued,             \* how many task calls the caller has issued
  tpc,                 \* each task call's position
  tloc,                \* each task call's arguments and locals
  ops,                 \* how many store calls have been issued
  opc,                 \* the store caller's position
  oloc,                \* the store caller's arguments and locals
  lastRead,            \* what the latest database read_asset returned
  fpc,                 \* the filter_file_list caller's position
  query,               \* filter_file_list's query_lower
  tx,                  \* the open transaction's rollback image, or None
  swapHist,            \* the latest successful database swaps in a row
  call,                \* the latest direct call of a function: its name and arguments
  ret                  \* what that call returned

vars == <<FILE_LIST, FILTERED_FILE_LIST, STATUS, PROGRESS, REQUEST_REPAINT,
          LIST_TASK_RUNNING, STOP_LIST_RUNNING, TASK_RUNNING, CONNECTION,
          connLock, db, storageFolder, cacheDir, outDirs, outFiles,
          issued, lpc, lloc, tissued, tpc, tloc,
          ops, opc, oloc, lastRead, fpc, query, tx, swapHist, call, ret>>

flagVars == <<LIST_TASK_RUNNING, STOP_LIST_RUNNING, TASK_RUNNING>>
displayVars == <<STATUS, PROGRESS, REQUEST_REPAINT>>
storeVars == <<CONNECTION, connLock, db, storageFolder, cacheDir, tx, swapHist>>
outVars == <<outDirs, outFiles>>
listVars == <<issued, lpc, lloc>>
taskVars == <<tissued, tpc, tloc>>
opVars == <<ops, opc, oloc, lastRead>>
filterVars == <<FILTERED_FILE_LIST, fpc, query>>
fnVars == <<call, ret>>

(***************************************************************************)
(* The stores at start: a files table of two rows (a PNG image and an Ogg  *)
(* sound in a compressed frame) and a cache directory of one Ogg file.     *)
(***************************************************************************)
DbPath == "rbx-storage.db"

InitialRows ==
  << [id |-> <<1>>, size |-> 5, ttl |-> 100,
      content |-> <<137, 80, 78, 71, 13>>],
     [id |-> <<2>>, size |-> 9, ttl |-> 200,
      content |-> <<40, 181, 47, 253, 4, 79, 103, 103, 83>>] >>

InitialCacheDir ==
  << [name |-> <<"a", "b">>, size |-> 5, last_modified |-> Some(300),
      content |-> <<79, 103, 103, 83, 7>>] >>

\* the listing threads: one per refresh call of the caller, and one for
\* each task call's refresh before extracting
UserRefresh == 1..NumRefresh
TaskRefresh(k) == NumRefresh + k
ListThreads == 1..(NumRefresh + NumTasks)
Tasks == 1..NumTasks

ListThread(i) == <<"list", i>>

\* the categories the caller asks listings of
RefreshCategories == {"Music", "Images", "All"}

Message(key, args) == [key |-> key, args |-> args]

\* no function has been called directly
NoCall == [fn |-> "none"]

Idling == Message("idling", <<>>)

\* create_no_files: the placeholder entry
create_no_files ==
  [name |-> <<"n", "o", "-", "f", "i", "l", "e", "s">>, size |-> 0,
   last_modified |-> None, from_file |-> FALSE, from_sql |-> FALSE,
   category |-> "All"]

(***************************************************************************)
(* The coordinator's setters.                                              *)
(***************************************************************************)
\* the status stored without the repaint flag
update_status_quiet(value) ==
  /\ STATUS' = value
  /\ UNCHANGED REQUEST_REPAINT

\* update_status: the status, then the repaint flag
update_status(value) ==
  /\ STATUS' = value
  /\ REQUEST_REPAINT' = TRUE

\* update_progress: the progress, then the repaint flag
update_progress(value) ==
  /\ PROGRESS' = value
  /\ REQUEST_REPAINT' = TRUE

\* update_file_list: push one entry
update_file_list(value) == FILE_LIST' = Append(FILE_LIST, value)

\* clear_file_list: a new, empty vector
clear_file_list == FILE_LIST' = <<>>

(***************************************************************************)
(* The database backend's listing of one row (the closure of query_map):   *)
(* Some(AssetInfo) when a header of the category is found in the           *)
(* decompressed prefix, None (an Err the caller's flatten drops) when not. *)
(***************************************************************************)
ScanRow(row, category) ==
  LET prefix == SubSeq(row.content, 1, Min(Len(row.content), PREFIX_LEN))
      bytes == ScanDecompress(prefix)
      headers == get_headers(category)
      header_found == \E k \in 1..Len(headers) : bytes_contains(bytes, headers[k])
  IN IF header_found
       THEN Some([name |-> HexEncode(row.id), size |-> row.size,
                  last_modified |-> Some(row.ttl),
                  from_file |-> FALSE, from_sql |-> TRUE,
                  category |-> IF category = "All"
                                 THEN determine_category(bytes)
                                 ELSE category])
       ELSE None

\* the directory backend's listing of one file
DirScanFile(file, category) ==
  LET bytes == ScanDecompress(file.content)
      headers == get_headers(category)
      header_found == \E k \in 1..Len(headers) : bytes_contains(bytes, headers[k])
  IN IF header_found
       THEN Some([name |-> file.name, size |-> file.size,
                  last_modified |-> file.last_modified,
                  from_file |-> TRUE, from_sql |-> FALSE,
                  category |-> IF category = "All"
                                 THEN determine_category(bytes)
                                 ELSE category])
       ELSE None

(***************************************************************************)
(* refresh(category, cli_list_mode, yield_for_thread): the spawned thread  *)
(* i, one step per critical section.  cli_list_mode only prints.           *)
(***************************************************************************)
NewListLocals(category, yield) ==
  [category |-> category, yield |-> yield, amount |-> None, count |-> 0,
   cursor |-> 1]

\* thread::spawn of the listing thread
SpawnRefresh(i, category, yield) ==
  /\ lpc' = [lpc EXCEPT ![i] = "poll"]
  /\ lloc' = [lloc EXCEPT ![i] = NewListLocals(category, yield)]

\* the caller issues its next refresh call; a call that yields for its
\* thread returns only when the thread has ended
RefreshCall(i) ==
  /\ i \in UserRefresh
  /\ i = issued + 1
  /\ \A j \in 1..issued : lloc[j].yield => lpc[j] = "done"
  /\ \E category \in RefreshCategories, yield \in BOOLEAN :
       SpawnRefresh(i, category, yield)
  /\ issued' = i
  /\ UNCHANGED <<FILE_LIST, filterVars, fnVars, flagVars, displayVars,
                 storeVars, outVars, taskVars, opVars>>

\* the wait loop reads LIST_TASK_RUNNING
RefreshPoll(i) ==
  /\ lpc[i] = "poll"
  /\ lpc' = [lpc EXCEPT ![i] = IF LIST_TASK_RUNNING THEN "signal" ELSE "claim"]
  /\ UNCHANGED <<FILE_LIST, filterVars, fnVars, flagVars, displayVars,
                 storeVars, outVars, issued, lloc,
                 taskVars, opVars>>

\* it was running: set STOP_LIST_RUNNING, sleep, and poll again
RefreshSignal(i) ==
  /\ lpc[i] = "signal"
  /\ STOP_LIST_RUNNING' = TRUE
  /\ lpc' = [lpc EXCEPT ![i] = "poll"]
  /\ UNCHANGED <<FILE_LIST, filterVars, fnVars, LIST_TASK_RUNNING,
                 TASK_RUNNING, displayVars, storeVars, outVars,
                 issued, lloc, taskVars, opVars>>

\* after the loop: LIST_TASK_RUNNING := true and STOP_LIST_RUNNING := false
RefreshClaim(i) ==
  /\ lpc[i] = "claim"
  /\ LIST_TASK_RUNNING' = TRUE
  /\ STOP_LIST_RUNNING' = FALSE
  /\ lpc' = [lpc EXCEPT ![i] = "clear"]
  /\ UNCHANGED <<FILE_LIST, filterVars, fnVars, TASK_RUNNING, displayVars,
                 storeVars, outVars, issued, lloc,
                 taskVars, opVars>>

RefreshClear(i) ==
  /\ lpc[i] = "clear"
  /\ clear_file_list
  /\ lpc' = [lpc EXCEPT ![i] = "sql"]
  /\ UNCHANGED <<filterVars, fnVars, flagVars, displayVars, storeVars,
                 outVars, issued, lloc, taskVars,
                 opVars>>

\* sql_database::refresh up to the statement: Music returns at once; no
\* connection, or a statement that cannot be prepared (no files table),
\* sets the failure status; else the scan starts, holding CONNECTION
SqlRefreshBegin(i) ==
  /\ lpc[i] = "sql"
  /\ IF lloc[i].category = "Music"
       THEN /\ lpc' = [lpc EXCEPT ![i] = "dir"]
            /\ UNCHANGED <<displayVars, connLock, lloc>>
       ELSE /\ connLock = None
            /\ IF CONNECTION = None \/ db = None
                 THEN /\ update_status(Message("failed-opening-file", <<>>))
                      /\ lpc' = [lpc EXCEPT ![i] = "dir"]
                      /\ UNCHANGED <<PROGRESS, connLock, lloc>>
                 ELSE /\ lloc' = [lloc EXCEPT ![i].amount = Some(Len(Unwrap(db))),
                                              ![i].count = 0,
                                              ![i].cursor = 1]
                      /\ IF Unwrap(db) = <<>>
                           THEN /\ lpc' = [lpc EXCEPT ![i] = "dir"]
                                /\ UNCHANGED connLock
                           ELSE /\ lpc' = [lpc EXCEPT ![i] = "q_report"]
                                /\ connLock' = Some(ListThread(i))
                      /\ UNCHANGED displayVars
  /\ UNCHANGED <<FILE_LIST, filterVars, fnVars, flagVars, CONNECTION, db,
                 storageFolder, cacheDir, tx, swapHist, outVars,
                 issued, taskVars, opVars>>

\* the closure on the next row: update_progress(count / total),
\* update_status(filtering-files item/total), count += 1
SqlRefreshReport(i) ==
  /\ lpc[i] = "q_report"
  /\ PROGRESS' = <<lloc[i].count, Unwrap(lloc[i].amount)>>
  /\ update_status(Message("filtering-files",
                           <<lloc[i].count, Unwrap(lloc[i].amount)>>))
  /\ lloc' = [lloc EXCEPT ![i].count = @ + 1]
  /\ lpc' = [lpc EXCEPT ![i] = "q_emit"]
  /\ UNCHANGED <<FILE_LIST, filterVars, fnVars, flagVars, storeVars,
                 outVars, issued, taskVars, opVars>>

\* the row is classified and, when it matches, pushed to the index; after
\* the last row the function returns and releases CONNECTION
SqlRefreshEmit(i) ==
  /\ lpc[i] = "q_emit"
  /\ LET rows == Unwrap(db)
         entry == ScanRow(rows[lloc[i].cursor], lloc[i].category)
     IN /\ IF IsSome(entry)
             THEN update_file_list(Unwrap(entry))
             ELSE UNCHANGED FILE_LIST
        /\ lloc' = [lloc EXCEPT ![i].cursor = @ + 1]
        /\ IF lloc[i].cursor < Len(rows)
             THEN /\ lpc' = [lpc EXCEPT ![i] = "q_report"]
                  /\ UNCHANGED connLock
             ELSE /\ lpc' = [lpc EXCEPT ![i] = "dir"]
                  /\ connLock' = None
  /\ UNCHANGED <<filterVars, fnVars, flagVars, displayVars, CONNECTION, db,
                 storageFolder, cacheDir, tx, swapHist, outVars,
                 issued, taskVars, opVars>>

\* cache_directory::refresh, file by file: it leaves its loop when
\* STOP_LIST_RUNNING is set, and pushes each file that matches
DirRefresh(i) ==
  /\ lpc[i] \in {"dir", "dir_next"}
  /\ LET cursor == IF lpc[i] = "dir" THEN 1 ELSE lloc[i].cursor
     IN IF cursor > Len(cacheDir) \/ STOP_LIST_RUNNING
          THEN /\ lpc' = [lpc EXCEPT ![i] = "release"]
               /\ UNCHANGED <<FILE_LIST, lloc>>
          ELSE LET entry == DirScanFile(cacheDir[cursor], lloc[i].category)
               IN /\ IF IsSome(entry)
                       THEN update_file_list(Unwrap(entry))
                       ELSE UNCHANGED FILE_LIST
                  /\ lloc' = [lloc EXCEPT ![i].cursor = cursor + 1]
                  /\ lpc' = [lpc EXCEPT ![i] = "dir_next"]
  /\ UNCHANGED <<filterVars, fnVars, flagVars, displayVars, storeVars,
                 outVars, issued, taskVars, opVars>>

\* the end of the pass without the store to LIST_TASK_RUNNING
RefreshReleaseKeepsFlag(i) ==
  /\ lpc[i] = "release"
  /\ lpc' = [lpc EXCEPT ![i] = "idling"]
  /\ UNCHANGED <<FILE_LIST, filterVars, fnVars, flagVars, displayVars,
                 storeVars, outVars, issued, lloc, taskVars, opVars>>

\* LIST_TASK_RUNNING := false
RefreshRelease(i) ==
  /\ lpc[i] = "release"
  /\ LIST_TASK_RUNNING' = FALSE
  /\ lpc' = [lpc EXCEPT ![i] = "idling"]
  /\ UNCHANGED <<FILE_LIST, filterVars, fnVars, STOP_LIST_RUNNING,
                 TASK_RUNNING, displayVars, storeVars, outVars,
                 issued, lloc, taskVars, opVars>>

\* update_status(idling), and the thread ends (its locals with it)
RefreshIdling(i) ==
  /\ lpc[i] = "idling"
  /\ update_status(Idling)
  /\ lpc' = [lpc EXCEPT ![i] = "done"]
  /\ lloc' = [lloc EXCEPT ![i] = NewListLocals(@.category, @.yield)]
  /\ UNCHANGED <<FILE_LIST, filterVars, fnVars, flagVars, PROGRESS, storeVars,
                 outVars, issued, taskVars, opVars>>

\* one step of listing thread i
RefreshThread(i) ==
  \/ RefreshPoll(i)
  \/ RefreshSignal(i)
  \/ RefreshClaim(i)
  \/ RefreshClear(i)
  \/ SqlRefreshBegin(i)
  \/ SqlRefreshReport(i)
  \/ SqlRefreshEmit(i)
  \/ DirRefresh(i)
  \/ RefreshRelease(i)
  \/ RefreshIdling(i)

(***************************************************************************)
(* Reading and slicing an asset.                                           *)
(***************************************************************************)
\* the row of the files table with this id, as Some(index), or None
RowIndex(rows, id) ==
  LET hits == {n \in 1..Len(rows) : rows[n].id = id}
  IN IF hits = {} THEN None ELSE Some(CHOOSE n \in hits : \A m \in hits : n <= m)

\* sql_database::read_asset under CONNECTION's lock: Ok(content), or Err
\* when there is no connection, the name is no hexadecimal string, or
\* the query returns no row
SqlReadAsset(name) ==
  IF CONNECTION = None THEN None
  ELSE LET id_bytes == HexDecode(name)
       IN IF id_bytes = None \/ db = None THEN None
          ELSE LET n == RowIndex(Unwrap(db), Unwrap(id_bytes))
               IN IF n = None THEN None
                  ELSE Some(Unwrap(db)[Unwrap(n)].content)

\* cache_directory::read_asset: the file of that name, or Err
DirReadAsset(name) ==
  LET hits == {n \in 1..Len(cacheDir) : cacheDir[n].name = name}
  IN IF hits = {} THEN None
     ELSE Some(cacheDir[CHOOSE n \in hits : TRUE].content)

\* read_asset passing a failed decoding on as its own failure
read_asset_strict(asset) ==
  LET raw == IF asset.from_file THEN DirReadAsset(asset.name)
             ELSE IF asset.from_sql THEN SqlReadAsset(asset.name)
             ELSE None
  IN IF raw = None THEN None
     ELSE IF HasMagic(Unwrap(raw)) THEN ZstdDecodeAll(Unwrap(raw))
     ELSE raw

\* logic::read_asset: route by origin, then decompress; a failed decoding
\* returns the raw bytes
read_asset(asset) ==
  LET raw == IF asset.from_file THEN DirReadAsset(asset.name)
             ELSE IF asset.from_sql THEN SqlReadAsset(asset.name)
             ELSE None
  IN IF raw = None THEN None
     ELSE LET raw_bytes == Unwrap(raw)
          IN IF HasMagic(raw_bytes)
               THEN (IF IsSome(ZstdDecodeAll(raw_bytes))
                       THEN ZstdDecodeAll(raw_bytes)
                       ELSE Some(raw_bytes))
               ELSE Some(raw_bytes)

\* find_header by the earliest byte offset instead of the catalog order
find_header_earliest(category, bytes) ==
  LET headers == get_headers(category)
      found == {k \in 1..Len(headers) : bytes_contains(bytes, headers[k])}
      At(k) == Unwrap(bytes_search(bytes, headers[k]))
  IN IF found = {} THEN None
     ELSE Some(headers[CHOOSE k \in found :
                         \A j \in found : At(k) < At(j) \/ (At(k) = At(j) /\ k <= j)])

\* find_header: the first header of the category, in its order, that
\* occurs in bytes; None when none does
find_header(category, bytes) ==
  LET headers == get_headers(category)
      found == {k \in 1..Len(headers) : bytes_contains(bytes, headers[k])}
  IN IF found = {} THEN None
     ELSE Some(headers[CHOOSE k \in found : \A j \in found : k <= j])

HeaderOffset(header) ==
  CASE header = PNG -> 1
    [] header = KTX -> 1
    [] header = WEBP -> 8
    [] OTHER -> 0

\* extract_bytes with index += offset
extract_bytes_forward(header, bytes) ==
  LET found == bytes_search(bytes, header)
  IN IF IsSome(found)
       THEN Some(SubSeq(bytes, Min(Unwrap(found) + HeaderOffset(header), Len(bytes)) + 1,
                        Len(bytes)))
       ELSE Some(bytes)

\* extract_bytes: the bytes from (earliest offset - HeaderOffset) on, or
\* the bytes themselves when the header is not found.  index -= offset
\* on a usize below offset overflows: the thread panics there, or wraps
\* and panics at the slice; None stands for the panic
extract_bytes(header, bytes) ==
  LET found == bytes_search(bytes, header)
  IN IF IsSome(found)
       THEN (IF Unwrap(found) < HeaderOffset(header)
               THEN None
               ELSE Some(SubSeq(bytes, Unwrap(found) - HeaderOffset(header) + 1,
                                Len(bytes))))
       ELSE Some(bytes)

Extension(header) ==
  CASE header = OggS -> "ogg"
    [] header = ID3 -> "mp3"
    [] header = PNG -> "png"
    [] header = WEBP -> "webp"
    [] header = KTX -> "ktx"
    [] header = Roblox -> "rbxm"
    [] OTHER -> "ogg"

\* config::get_asset_alias: the configured alias of a name, else the name
get_asset_alias(name) ==
  IF name = <<"a", "b">> THEN <<"s", "o", "n", "g">> ELSE name

(***************************************************************************)
(* extract_to_file(asset, destination, add_extension = true), given        *)
(* whether the destination directory exists (fs::write fails when it does  *)
(* not).  The outcome: result "err" (read_asset failed, nothing written),  *)
(* "panic" (extract_bytes aborted the thread) or "ok" (Ok(destination)     *)
(* was returned), and the file written, if one was.                        *)
(***************************************************************************)
extract_to_file(asset, alias, dirExists) ==
  LET bytes == read_asset(asset)
  IN IF bytes = None
       THEN [result |-> "err", written |-> None]
       ELSE
         LET header == find_header(asset.category, Unwrap(bytes))
             extension == IF IsSome(header) THEN Extension(Unwrap(header)) ELSE ""
             extracted_bytes == IF IsSome(header)
                                  THEN extract_bytes(Unwrap(header), Unwrap(bytes))
                                  ELSE bytes
         IN IF extracted_bytes = None
              THEN [result |-> "panic", written |-> None]
              ELSE [result |-> "ok",
                    written |-> IF dirExists
                                  THEN Some([path |-> <<alias, extension>>,
                                             bytes |-> Unwrap(extracted_bytes),
                                             modified |-> asset.last_modified])
                                  ELSE None]

\* fs::write replaces the file at the path
WriteFile(files, file) == {f \in files : f.path # file.path} \cup {file}

(***************************************************************************)
(* The mutating calls: clear_cache, extract_dir and extract_all.  Call k   *)
(* runs on the caller's thread up to the spawn, then on its own thread.    *)
(***************************************************************************)
Destination == "out"

TaskKinds == {"clear_cache", "extract_dir", "extract_all"}

\* the categories the caller extracts
ExtractCategories == {"Music", "All"}

\* the caller's use_alias: the files are written under their stored names
AliasChoices == {FALSE}

NewTaskLocals(kind, category, yield, use_alias) ==
  [kind |-> kind, category |-> category, yield |-> yield,
   use_alias |-> use_alias, spawned |-> FALSE, phase |-> 0,
   made_dir |-> FALSE, path |-> None, file_list |-> <<>>, count |-> 0]

Task(k) == <<"task", k>>

\* whether call j has returned to the caller
CallReturned(j) ==
  \/ tpc[j] \in {"rejected", "done", "panicked"}
  \/ tloc[j] # None /\ tloc[j].spawned /\ ~tloc[j].yield

\* the caller issues its next call, one of kinds
TaskCallOf(k, kinds) ==
  /\ k = tissued + 1
  /\ \A j \in 1..tissued : CallReturned(j)
  /\ \E kind \in kinds, category \in ExtractCategories,
        yield \in BOOLEAN, use_alias \in AliasChoices :
       /\ kind # "extract_dir" => category = "All"
       /\ kind = "clear_cache" => ~yield /\ ~use_alias
       /\ tloc' = [tloc EXCEPT ![k] = NewTaskLocals(kind, category, yield, use_alias)]
       /\ tpc' = [tpc EXCEPT ![k] = IF kind = "extract_dir"
                                       THEN "ed_mkdir" ELSE "check"]
  /\ tissued' = k
  /\ UNCHANGED <<FILE_LIST, filterVars, fnVars, flagVars, displayVars,
                 storeVars, outVars, listVars, opVars>>

TaskCall(k) == TaskCallOf(k, TaskKinds)

\* a call that spawns its thread whatever TASK_RUNNING holds
TaskCheckSpawns(k) ==
  /\ tpc[k] = "check"
  /\ tpc' = [tpc EXCEPT ![k] = "set"]
  /\ tloc' = [tloc EXCEPT ![k].spawned = TRUE]
  /\ UNCHANGED <<FILE_LIST, filterVars, fnVars, flagVars, displayVars,
                 storeVars, outVars, listVars, tissued, opVars>>

\* clear_cache and extract_all read TASK_RUNNING on the caller's thread:
\* running, the call returns; not running, the thread is spawned
TaskCheck(k) ==
  /\ tpc[k] = "check"
  /\ IF TASK_RUNNING
       THEN /\ tpc' = [tpc EXCEPT ![k] = "rejected"]
            /\ UNCHANGED tloc
       ELSE /\ tpc' = [tpc EXCEPT ![k] = "set"]
            /\ tloc' = [tloc EXCEPT ![k].spawned = TRUE]
  /\ UNCHANGED <<FILE_LIST, filterVars, fnVars, flagVars, displayVars,
                 storeVars, outVars, listVars, tissued, opVars>>

\* the thread's first statement: TASK_RUNNING := true.  extract_all then
\* calls extract_dir for Music
TaskSet(k) ==
  /\ tpc[k] = "set"
  /\ TASK_RUNNING' = TRUE
  /\ IF tloc[k].kind = "clear_cache"
       THEN /\ tpc' = [tpc EXCEPT ![k] = "sc_begin"]
            /\ UNCHANGED tloc
       ELSE /\ tpc' = [tpc EXCEPT ![k] = "ed_mkdir"]
            /\ tloc' = [tloc EXCEPT ![k].phase = 1, ![k].category = "Music"]
  /\ UNCHANGED <<FILE_LIST, filterVars, fnVars, LIST_TASK_RUNNING,
                 STOP_LIST_RUNNING, displayVars, storeVars, outVars, listVars,
                 tissued, opVars>>

(***************************************************************************)
(* sql_database::clear_cache, on the clearing thread.                      *)
(***************************************************************************)
\* update_progress(0.0) and update_status(deleting-files 0/2)
SqlClearBegin(k) ==
  /\ tpc[k] = "sc_begin"
  /\ PROGRESS' = <<0, 1>>
  /\ update_status(Message("deleting-files", <<0, 2>>))
  /\ tpc' = [tpc EXCEPT ![k] = "sc_path"]
  /\ UNCHANGED <<FILE_LIST, filterVars, fnVars, flagVars, storeVars, outVars,
                 listVars, tissued, tloc, opVars>>

\* the path read with the guard of CONNECTION kept by the clearing thread
SqlClearPathHoldsGuard(k) ==
  /\ tpc[k] = "sc_path"
  /\ connLock = None
  /\ connLock' = Some(Task(k))
  /\ tloc' = [tloc EXCEPT ![k].path = CONNECTION]
  /\ tpc' = [tpc EXCEPT ![k] = "sc_cleanup"]
  /\ UNCHANGED <<FILE_LIST, filterVars, fnVars, flagVars, displayVars,
                 CONNECTION, db, storageFolder, cacheDir, tx, swapHist,
                 outVars, listVars, tissued, opVars>>

\* the connection's path, read under CONNECTION's lock
SqlClearPath(k) ==
  /\ tpc[k] = "sc_path"
  /\ connLock = None
  /\ tloc' = [tloc EXCEPT ![k].path = CONNECTION]
  /\ tpc' = [tpc EXCEPT ![k] = "sc_cleanup"]
  /\ UNCHANGED <<FILE_LIST, filterVars, fnVars, flagVars, displayVars,
                 storeVars, outVars, listVars, tissued, opVars>>

\* clean_up: take the connection and close it; CONNECTION is None after
clean_up ==
  /\ connLock = None
  /\ CONNECTION' = None

SqlClearCleanUp(k) ==
  /\ tpc[k] = "sc_cleanup"
  /\ clean_up
  /\ tpc' = [tpc EXCEPT ![k] = IF IsSome(tloc[k].path) THEN "sc_remove" ELSE "sc_rmdir"]
  /\ UNCHANGED <<FILE_LIST, filterVars, fnVars, flagVars, displayVars,
                 connLock, db, storageFolder, cacheDir, tx, swapHist, outVars,
                 listVars, tissued, tloc, opVars>>

\* remove_file(path), which may fail, then update_progress(0.5) and the
\* status of the outcome
SqlClearRemove(k) ==
  /\ tpc[k] = "sc_remove"
  /\ \E removed \in BOOLEAN :
       /\ db' = IF removed THEN None ELSE db
       /\ update_status(Message(IF removed THEN "deleting-files"
                                           ELSE "failed-deleting-file", <<1, 2>>))
  /\ PROGRESS' = <<1, 2>>
  /\ tpc' = [tpc EXCEPT ![k] = "sc_reopen"]
  /\ UNCHANGED <<FILE_LIST, filterVars, fnVars, flagVars, CONNECTION,
                 connLock, storageFolder, cacheDir, tx, swapHist, outVars,
                 listVars, tissued, tloc, opVars>>

\* Connection::open(path): opened, the connection replaces CONNECTION
\* under its lock; a failure is logged
SqlClearReopen(k) ==
  /\ tpc[k] = "sc_reopen"
  /\ \E opened \in BOOLEAN :
       IF opened
         THEN /\ connLock = None
              /\ CONNECTION' = tloc[k].path
         ELSE UNCHANGED CONNECTION
  /\ tpc' = [tpc EXCEPT ![k] = "sc_rmdir"]
  /\ UNCHANGED <<FILE_LIST, filterVars, fnVars, flagVars, displayVars,
                 connLock, db, storageFolder, cacheDir, tx, swapHist, outVars,
                 listVars, tissued, tloc, opVars>>

\* a clear whose failed remove_dir_all ends the backends' part of the run
SqlClearFolderAborts(k) ==
  /\ tpc[k] = "sc_rmdir"
  /\ IF IsSome(tloc[k].path)
       THEN /\ \E removed \in BOOLEAN :
                 /\ storageFolder' = (storageFolder /\ ~removed)
                 /\ update_status(Message(IF removed THEN "deleted-files"
                                                     ELSE "failed-deleting-file",
                                          <<2, 2>>))
                 /\ tpc' = [tpc EXCEPT ![k] = IF removed THEN "dc_clear"
                                                         ELSE "cc_clear"]
            /\ PROGRESS' = <<1, 1>>
       ELSE /\ tpc' = [tpc EXCEPT ![k] = "cc_clear"]
            /\ UNCHANGED <<storageFolder, displayVars>>
  /\ UNCHANGED <<FILE_LIST, filterVars, fnVars, flagVars, CONNECTION,
                 connLock, db, cacheDir, tx, swapHist, outVars, listVars,
                 tissued, tloc, opVars>>

\* remove_dir_all(storage folder) when a path was found, which may fail,
\* then update_progress(1.0) and the status of the outcome
SqlClearFolder(k) ==
  /\ tpc[k] = "sc_rmdir"
  /\ IF IsSome(tloc[k].path)
       THEN /\ \E removed \in BOOLEAN :
                 /\ storageFolder' = (storageFolder /\ ~removed)
                 /\ update_status(Message(IF removed THEN "deleted-files"
                                                     ELSE "failed-deleting-file",
                                          <<2, 2>>))
            /\ PROGRESS' = <<1, 1>>
       ELSE UNCHANGED <<storageFolder, displayVars>>
  /\ tpc' = [tpc EXCEPT ![k] = "dc_clear"]
  /\ UNCHANGED <<FILE_LIST, filterVars, fnVars, flagVars, CONNECTION,
                 connLock, db, cacheDir, tx, swapHist, outVars, listVars,
                 tissued, tloc, opVars>>

\* cache_directory::clear_cache: every file is deleted, or the deletion
\* fails
DirClear(k) ==
  /\ tpc[k] = "dc_clear"
  /\ \E removed \in BOOLEAN : cacheDir' = IF removed THEN <<>> ELSE cacheDir
  /\ tpc' = [tpc EXCEPT ![k] = "cc_clear"]
  /\ UNCHANGED <<FILE_LIST, filterVars, fnVars, flagVars, displayVars,
                 CONNECTION, connLock, db, storageFolder, tx, swapHist,
                 outVars, listVars, tissued, tloc, opVars>>

(***************************************************************************)
(* clear_cache after the backends.                                         *)
(***************************************************************************)
ClearCacheClear(k) ==
  /\ tpc[k] = "cc_clear"
  /\ clear_file_list
  /\ tpc' = [tpc EXCEPT ![k] = "cc_push"]
  /\ UNCHANGED <<filterVars, fnVars, flagVars, displayVars, storeVars,
                 outVars, listVars, tissued, tloc, opVars>>

ClearCachePush(k) ==
  /\ tpc[k] = "cc_push"
  /\ update_file_list(create_no_files)
  /\ tpc' = [tpc EXCEPT ![k] = "unset"]
  /\ UNCHANGED <<filterVars, fnVars, flagVars, displayVars, storeVars,
                 outVars, listVars, tissued, tloc, opVars>>

\* clear_cache and extract_all: TASK_RUNNING := false
TaskUnset(k) ==
  /\ tpc[k] = "unset"
  /\ TASK_RUNNING' = FALSE
  /\ tpc' = [tpc EXCEPT ![k] = "status"]
  /\ UNCHANGED <<FILE_LIST, filterVars, fnVars, LIST_TASK_RUNNING,
                 STOP_LIST_RUNNING, displayVars, storeVars, outVars, listVars,
                 tissued, tloc, opVars>>

\* the last status: idling after a clear, all-extracted after extract_all
TaskStatus(k) ==
  /\ tpc[k] = "status"
  /\ update_status(IF tloc[k].kind = "clear_cache"
                     THEN Idling ELSE Message("all-extracted", <<>>))
  /\ tpc' = [tpc EXCEPT ![k] = "done"]
  /\ tloc' = [tloc EXCEPT ![k].path = None]
  /\ UNCHANGED <<FILE_LIST, filterVars, fnVars, flagVars, PROGRESS, storeVars,
                 outVars, listVars, tissued, opVars>>

(***************************************************************************)
(* extract_dir(destination, category, yield_for_thread, use_alias): call k *)
(* itself, or the call extract_all's thread makes and waits for.           *)
(***************************************************************************)
\* where call k goes on when its extract_dir returns: an extract_dir call
\* has ended; extract_all calls extract_dir for All after the one for
\* Music, and resets the flag after that
EdReturnPc(k, rejected) ==
  IF tloc[k].kind = "extract_dir"
    THEN (IF rejected THEN "rejected" ELSE "done")
    ELSE (IF tloc[k].phase = 1 THEN "ed_mkdir" ELSE "unset")

\* the locals of extract_dir's thread end with it
EdReturnLocals(k) ==
  IF tloc[k].kind = "extract_all" /\ tloc[k].phase = 1
    THEN [tloc[k] EXCEPT !.phase = 2, !.category = "All", !.made_dir = FALSE,
                         !.file_list = <<>>, !.count = 0]
    ELSE [tloc[k] EXCEPT !.file_list = <<>>, !.count = 0]

\* fs::create_dir_all(destination), before the flag is read; it may fail.
\* made_dir records that this call made a directory that was not there
EdMkdir(k) ==
  /\ tpc[k] = "ed_mkdir"
  /\ \E created \in BOOLEAN :
       /\ outDirs' = IF created THEN outDirs \cup {Destination} ELSE outDirs
       /\ tloc' = [tloc EXCEPT ![k].made_dir = created /\ Destination \notin outDirs]
  /\ tpc' = [tpc EXCEPT ![k] = "ed_check"]
  /\ UNCHANGED <<FILE_LIST, filterVars, fnVars, flagVars, displayVars,
                 storeVars, outFiles, listVars, tissued, opVars>>

\* TASK_RUNNING is read: running, extract_dir returns; not running, its
\* thread is spawned
EdCheck(k) ==
  /\ tpc[k] = "ed_check"
  /\ IF TASK_RUNNING
       THEN /\ tpc' = [tpc EXCEPT ![k] = EdReturnPc(k, TRUE)]
            /\ tloc' = [tloc EXCEPT ![k] = EdReturnLocals(k)]
       ELSE /\ tpc' = [tpc EXCEPT ![k] = "ed_set"]
            /\ tloc' = [tloc EXCEPT ![k].spawned = TRUE, ![k].made_dir = FALSE]
  /\ UNCHANGED <<FILE_LIST, filterVars, fnVars, flagVars, displayVars,
                 storeVars, outVars, listVars, tissued, opVars>>

\* the thread's first statement: TASK_RUNNING := true
EdSet(k) ==
  /\ tpc[k] = "ed_set"
  /\ TASK_RUNNING' = TRUE
  /\ tpc' = [tpc EXCEPT ![k] = "ed_config"]
  /\ UNCHANGED <<FILE_LIST, filterVars, fnVars, LIST_TASK_RUNNING,
                 STOP_LIST_RUNNING, displayVars, storeVars, outVars, listVars,
                 tissued, tloc, opVars>>

\* refresh_before_extract is read from the configuration: when set,
\* refresh(category, false, true) spawns a listing thread and waits for it
EdConfig(k) ==
  /\ tpc[k] = "ed_config"
  /\ \E refresh_before_extract \in BOOLEAN :
       IF refresh_before_extract
         THEN /\ SpawnRefresh(TaskRefresh(k), tloc[k].category, TRUE)
              /\ tpc' = [tpc EXCEPT ![k] = "ed_join"]
         ELSE /\ tpc' = [tpc EXCEPT ![k] = "ed_snapshot"]
              /\ UNCHANGED <<lpc, lloc>>
  /\ UNCHANGED <<FILE_LIST, filterVars, fnVars, flagVars, displayVars,
                 storeVars, outVars, issued, tissued, tloc, opVars>>

\* handle.join() of the listing thread
EdJoin(k) ==
  /\ tpc[k] = "ed_join"
  /\ lpc[TaskRefresh(k)] = "done"
  /\ tpc' = [tpc EXCEPT ![k] = "ed_snapshot"]
  /\ UNCHANGED <<FILE_LIST, filterVars, fnVars, flagVars, displayVars,
                 storeVars, outVars, listVars, tissued, tloc, opVars>>

\* get_file_list(): a copy of the index; total and count
EdSnapshot(k) ==
  /\ tpc[k] = "ed_snapshot"
  /\ tloc' = [tloc EXCEPT ![k].file_list = FILE_LIST, ![k].count = 0]
  /\ tpc' = [tpc EXCEPT ![k] = IF FILE_LIST = <<>> THEN "ed_unset" ELSE "ed_progress"]
  /\ UNCHANGED <<FILE_LIST, filterVars, fnVars, flagVars, displayVars,
                 storeVars, outVars, listVars, tissued, opVars>>

\* the next entry, with the total read from the index as it is now
EdProgressOfIndex(k) ==
  /\ tpc[k] = "ed_progress"
  /\ tloc' = [tloc EXCEPT ![k].count = @ + 1]
  /\ update_progress(<<tloc[k].count + 1, Len(FILE_LIST)>>)
  /\ tpc' = [tpc EXCEPT ![k] = "ed_extract"]
  /\ UNCHANGED <<FILE_LIST, filterVars, fnVars, flagVars, STATUS, storeVars,
                 outVars, listVars, tissued, opVars>>

\* the next entry: count += 1 and update_progress(count / total)
EdProgress(k) ==
  /\ tpc[k] = "ed_progress"
  /\ tloc' = [tloc EXCEPT ![k].count = @ + 1]
  /\ update_progress(<<tloc[k].count + 1, Len(tloc[k].file_list)>>)
  /\ tpc' = [tpc EXCEPT ![k] = "ed_extract"]
  /\ UNCHANGED <<FILE_LIST, filterVars, fnVars, flagVars, STATUS, storeVars,
                 outVars, listVars, tissued, opVars>>

\* extract_to_file on the entry (a database entry is read under
\* CONNECTION's lock), then the status, whether it returned Ok or Err; a
\* panic ends the thread, and extract_all's join returns
EdExtract(k) ==
  /\ tpc[k] = "ed_extract"
  /\ LET entry == tloc[k].file_list[tloc[k].count]
         total == Len(tloc[k].file_list)
         alias == IF tloc[k].use_alias THEN get_asset_alias(entry.name)
                                       ELSE entry.name
         out == extract_to_file(entry, alias, Destination \in outDirs)
     IN /\ (entry.from_sql /\ ~entry.from_file) => connLock = None
        /\ IF out.result = "panic"
             THEN /\ IF tloc[k].kind = "extract_dir"
                       THEN /\ tpc' = [tpc EXCEPT ![k] = "panicked"]
                            /\ UNCHANGED tloc
                       ELSE /\ tpc' = [tpc EXCEPT ![k] = EdReturnPc(k, FALSE)]
                            /\ tloc' = [tloc EXCEPT ![k] = EdReturnLocals(k)]
                  /\ UNCHANGED <<outFiles, displayVars>>
             ELSE /\ outFiles' = IF IsSome(out.written)
                                   THEN WriteFile(outFiles, Unwrap(out.written))
                                   ELSE outFiles
                  /\ update_status(Message("extracting-files",
                                           <<tloc[k].count, total>>))
                  /\ tpc' = [tpc EXCEPT ![k] = IF tloc[k].count < total
                                                 THEN "ed_progress"
                                                 ELSE "ed_unset"]
                  /\ UNCHANGED <<PROGRESS, tloc>>
  /\ UNCHANGED <<FILE_LIST, filterVars, fnVars, flagVars, storeVars, outDirs,
                 listVars, tissued, opVars>>

\* TASK_RUNNING := false
EdUnset(k) ==
  /\ tpc[k] = "ed_unset"
  /\ TASK_RUNNING' = FALSE
  /\ tpc' = [tpc EXCEPT ![k] = "ed_status"]
  /\ UNCHANGED <<FILE_LIST, filterVars, fnVars, LIST_TASK_RUNNING,
                 STOP_LIST_RUNNING, displayVars, storeVars, outVars, listVars,
                 tissued, tloc, opVars>>

\* update_status(all-extracted), and extract_dir's thread ends
EdStatus(k) ==
  /\ tpc[k] = "ed_status"
  /\ update_status(Message("all-extracted", <<>>))
  /\ tpc' = [tpc EXCEPT ![k] = EdReturnPc(k, FALSE)]
  /\ tloc' = [tloc EXCEPT ![k] = EdReturnLocals(k)]
  /\ UNCHANGED <<FILE_LIST, filterVars, fnVars, flagVars, PROGRESS, storeVars,
                 outVars, listVars, tissued, opVars>>

\* one step of call k
TaskStep(k) ==
  \/ TaskCheck(k)
  \/ TaskSet(k)
  \/ SqlClearBegin(k)
  \/ SqlClearPath(k)
  \/ SqlClearCleanUp(k)
  \/ SqlClearRemove(k)
  \/ SqlClearReopen(k)
  \/ SqlClearFolder(k)
  \/ DirClear(k)
  \/ ClearCacheClear(k)
  \/ ClearCachePush(k)
  \/ TaskUnset(k)
  \/ TaskStatus(k)
  \/ EdMkdir(k)
  \/ EdCheck(k)
  \/ EdSet(k)
  \/ EdConfig(k)
  \/ EdJoin(k)
  \/ EdSnapshot(k)
  \/ EdProgress(k)
  \/ EdExtract(k)
  \/ EdUnset(k)
  \/ EdStatus(k)

\* the entries of one complete, undisturbed listing pass for a category:
\* the table's rows that match (none for Music, none without a table),
\* then the directory's files that match
RECURSIVE Flatten(_)
Flatten(s) == IF s = <<>> THEN <<>> ELSE Head(s) \o Flatten(Tail(s))

Pass(table, directory, category) ==
  (IF category = "Music" \/ table = None THEN <<>>
   ELSE Flatten([n \in 1..Len(Unwrap(table)) |->
                   ScanRow(Unwrap(table)[n], category)]))
  \o Flatten([n \in 1..Len(directory) |-> DirScanFile(directory[n], category)])

Listing(category) == Pass(Some(InitialRows), InitialCacheDir, category)

(***************************************************************************)
(* The files table's statements.                                           *)
(***************************************************************************)
\* SELECT content FROM files WHERE id = ?1, as query_row: Err when the
\* table or the row is missing
SelectContent(table, id) ==
  IF table = None THEN None
  ELSE LET n == RowIndex(Unwrap(table), id)
       IN IF n = None THEN None ELSE Some(Unwrap(table)[Unwrap(n)].content)

\* a statement that lost its WHERE clause
UpdateEveryRow(table, content, id) ==
  Some([n \in 1..Len(Unwrap(table)) |-> [Unwrap(table)[n] EXCEPT !.content = content]])

\* UPDATE files SET content = ?1 WHERE id = ?2: every row of that id, and
\* no row when there is none
UpdateContent(table, content, id) ==
  Some([n \in 1..Len(Unwrap(table)) |->
          IF Unwrap(table)[n].id = id
            THEN [Unwrap(table)[n] EXCEPT !.content = content]
            ELSE Unwrap(table)[n]])

\* a transaction whose drop keeps what its statements wrote
KeepWritten(image, table) == table

\* a transaction dropped before its commit rolls back to its image
Rollback(image, table) == image

(***************************************************************************)
(* The directory backend's swap and copy, from the specification: both     *)
(* names must be files of the directory.                                   *)
(***************************************************************************)
DirIndex(dir, name) ==
  LET hits == {n \in 1..Len(dir) : dir[n].name = name}
  IN IF hits = {} THEN None ELSE Some(CHOOSE n \in hits : \A m \in hits : n <= m)

DirSwap(dir, a, b) ==
  LET ia == DirIndex(dir, a.name)
      ib == DirIndex(dir, b.name)
  IN IF ia = None \/ ib = None THEN [result |-> "err", dir |-> dir]
     ELSE [result |-> "ok",
           dir |-> [dir EXCEPT ![Unwrap(ia)].content = dir[Unwrap(ib)].content,
                               ![Unwrap(ib)].content = dir[Unwrap(ia)].content]]

DirCopy(dir, a, b) ==
  LET ia == DirIndex(dir, a.name)
      ib == DirIndex(dir, b.name)
  IN IF ia = None \/ ib = None THEN [result |-> "err", dir |-> dir]
     ELSE [result |-> "ok",
           dir |-> [dir EXCEPT ![Unwrap(ib)].content = dir[Unwrap(ia)].content]]

(***************************************************************************)
(* swap_assets(asset_a, asset_b) and copy_assets(asset_a, asset_b) of the  *)
(* coordinator, on the caller's thread: the directory backend, then the    *)
(* database backend under CONNECTION's lock, then the status.              *)
(***************************************************************************)
Caller == <<"caller">>

\* the assets the caller passes: the database's rows, the directory's
\* files (a file's name is a hexadecimal string that is no row's id), and
\* an asset of neither store whose name is no hexadecimal string
StoreCacheDir ==
  InitialCacheDir
  \o << [name |-> <<"c", "d">>, size |-> 4, last_modified |-> Some(400),
         content |-> <<137, 80, 78, 71>>] >>

NoAsset ==
  [name |-> <<"z", "z">>, size |-> 0, last_modified |-> None,
   from_file |-> FALSE, from_sql |-> FALSE, category |-> "All"]

OpAssets ==
  {Unwrap(ScanRow(InitialRows[n], "All")) : n \in 1..Len(InitialRows)}
  \cup {Unwrap(DirScanFile(StoreCacheDir[n], "All")) : n \in 1..Len(StoreCacheDir)}
  \cup {NoAsset}

OpCall ==
  /\ opc \in {"idle", "reported"}
  /\ ops < MaxOps
  /\ \E op \in {"swap", "copy"}, a \in OpAssets, b \in OpAssets :
       oloc' = [op |-> op, asset_a |-> a, asset_b |-> b,
                cache_directory_result |-> "pending",
                sql_database_result |-> "pending",
                content_a |-> None, content_b |-> None, before |-> db]
  /\ opc' = "dir"
  /\ ops' = ops + 1
  /\ UNCHANGED <<FILE_LIST, filterVars, fnVars, flagVars, displayVars,
                 storeVars, outVars, listVars, taskVars, lastRead>>

\* cache_directory::swap_assets or cache_directory::copy_assets
OpDir ==
  /\ opc = "dir"
  /\ LET out == IF oloc.op = "swap"
                  THEN DirSwap(cacheDir, oloc.asset_a, oloc.asset_b)
                  ELSE DirCopy(cacheDir, oloc.asset_a, oloc.asset_b)
     IN /\ cacheDir' = out.dir
        /\ oloc' = [oloc EXCEPT !.cache_directory_result = out.result]
  /\ opc' = "sql"
  /\ UNCHANGED <<FILE_LIST, filterVars, fnVars, flagVars, displayVars,
                 CONNECTION, connLock, db, storageFolder, tx, swapHist,
                 outVars, listVars, taskVars, ops, lastRead>>

\* the backend's call returns: the lock is released and the transaction
\* is over; swapHist keeps the latest two swaps that returned Ok one
\* right after the other, each with the table before it
SqlReturn(result, table) ==
  /\ oloc' = [oloc EXCEPT !.sql_database_result = result,
                          !.content_a = None, !.content_b = None]
  /\ db' = table
  /\ tx' = None
  /\ connLock' = None
  /\ swapHist' = IF result = "ok" /\ oloc.op = "swap"
                   THEN (IF swapHist = <<>> THEN <<>>
                         ELSE <<swapHist[Len(swapHist)]>>)
                        \o <<[a |-> oloc.asset_a.name,
                              b |-> oloc.asset_b.name,
                              before |-> oloc.before]>>
                   ELSE <<>>
  /\ opc' = "status"

\* sql_database::swap_assets up to its updates: Err when there is no
\* connection, a name is no hexadecimal string, or a row is missing; else
\* the transaction is open and both contents are read
SqlSwapBegin ==
  /\ opc = "sql"
  /\ oloc.op = "swap"
  /\ connLock = None
  /\ LET id_a == HexDecode(oloc.asset_a.name)
         id_b == HexDecode(oloc.asset_b.name)
         content_a == IF id_a = None THEN None ELSE SelectContent(db, Unwrap(id_a))
         content_b == IF id_b = None THEN None ELSE SelectContent(db, Unwrap(id_b))
     IN IF CONNECTION = None \/ content_a = None \/ content_b = None
          THEN SqlReturn("err", db)
          ELSE /\ connLock' = Some(Caller)
               /\ tx' = Some(db)
               /\ oloc' = [oloc EXCEPT !.content_a = content_a,
                                       !.content_b = content_b]
               /\ opc' = "sw_update_a"
               /\ UNCHANGED <<db, swapHist>>
  /\ UNCHANGED <<FILE_LIST, filterVars, fnVars, flagVars, displayVars,
                 CONNECTION, storageFolder, cacheDir, outVars, listVars,
                 taskVars, ops, lastRead>>

\* UPDATE files SET content = content_b WHERE id = id_a; a failure returns
\* Err and drops the transaction
SqlSwapUpdateA ==
  /\ opc = "sw_update_a"
  /\ \E executed \in BOOLEAN :
       IF executed
         THEN /\ db' = UpdateContent(db, Unwrap(oloc.content_b),
                                     Unwrap(HexDecode(oloc.asset_a.name)))
              /\ opc' = "sw_update_b"
              /\ UNCHANGED <<oloc, tx, connLock, swapHist>>
         ELSE SqlReturn("err", Rollback(Unwrap(tx), db))
  /\ UNCHANGED <<FILE_LIST, filterVars, fnVars, flagVars, displayVars,
                 CONNECTION, storageFolder, cacheDir, outVars,
                 listVars, taskVars, ops, lastRead>>

\* UPDATE files SET content = content_a WHERE id = id_b
SqlSwapUpdateB ==
  /\ opc = "sw_update_b"
  /\ \E executed \in BOOLEAN :
       IF executed
         THEN /\ db' = UpdateContent(db, Unwrap(oloc.content_a),
                                     Unwrap(HexDecode(oloc.asset_b.name)))
              /\ opc' = "sw_commit"
              /\ UNCHANGED <<oloc, tx, connLock, swapHist>>
         ELSE SqlReturn("err", Rollback(Unwrap(tx), db))
  /\ UNCHANGED <<FILE_LIST, filterVars, fnVars, flagVars, displayVars,
                 CONNECTION, storageFolder, cacheDir, outVars,
                 listVars, taskVars, ops, lastRead>>

\* tx.commit(): Ok, or Err and the transaction is dropped
SqlSwapCommit ==
  /\ opc = "sw_commit"
  /\ \E committed \in BOOLEAN :
       IF committed
         THEN SqlReturn("ok", db)
         ELSE SqlReturn("err", Rollback(Unwrap(tx), db))
  /\ UNCHANGED <<FILE_LIST, filterVars, fnVars, flagVars, displayVars,
                 CONNECTION, storageFolder, cacheDir, outVars, listVars,
                 taskVars, ops, lastRead>>

\* sql_database::copy_assets up to its update: Err when there is no
\* connection, a name is no hexadecimal string, or a's row is missing
SqlCopyBegin ==
  /\ opc = "sql"
  /\ oloc.op = "copy"
  /\ connLock = None
  /\ LET id_a == HexDecode(oloc.asset_a.name)
         id_b == HexDecode(oloc.asset_b.name)
         content_a == IF id_a = None THEN None ELSE SelectContent(db, Unwrap(id_a))
     IN IF CONNECTION = None \/ id_b = None \/ content_a = None
          THEN SqlReturn("err", db)
          ELSE /\ connLock' = Some(Caller)
               /\ oloc' = [oloc EXCEPT !.content_a = content_a]
               /\ opc' = "cp_update"
               /\ UNCHANGED <<db, tx, swapHist>>
  /\ UNCHANGED <<FILE_LIST, filterVars, fnVars, flagVars, displayVars,
                 CONNECTION, storageFolder, cacheDir, outVars, listVars,
                 taskVars, ops, lastRead>>

\* UPDATE files SET content = content_a WHERE id = id_b, one statement on
\* its own: executed, the call returns Ok(())
SqlCopyUpdate ==
  /\ opc = "cp_update"
  /\ \E executed \in BOOLEAN :
       IF executed
         THEN SqlReturn("ok", UpdateContent(db, Unwrap(oloc.content_a),
                                            Unwrap(HexDecode(oloc.asset_b.name))))
         ELSE SqlReturn("err", db)
  /\ UNCHANGED <<FILE_LIST, filterVars, fnVars, flagVars, displayVars,
                 CONNECTION, storageFolder, cacheDir, outVars,
                 listVars, taskVars, ops, lastRead>>

\* a status that reports the failure when either result is Err
ReportEitherFailure(op, cache_directory_result, sql_database_result) ==
  IF cache_directory_result = "err" \/ sql_database_result = "err"
    THEN "failed-opening-file"
    ELSE IF op = "swap" THEN "swapped" ELSE "copied"

\* the status: the failure message (set for each error, the database's
\* last) when both results are Err, else
\* swapped or copied
ReportKey(op, cache_directory_result, sql_database_result) ==
  IF cache_directory_result = "err" /\ sql_database_result = "err"
    THEN "failed-opening-file"
    ELSE IF op = "swap" THEN "swapped" ELSE "copied"

\* the report of a call that lists the index anew
OpStatusRelists ==
  /\ opc = "status"
  /\ LET key == ReportKey(oloc.op, oloc.cache_directory_result,
                          oloc.sql_database_result)
     IN update_status(Message(key, IF key = "failed-opening-file"
                                     THEN <<"error">>
                                     ELSE <<oloc.asset_a.name, oloc.asset_b.name>>))
  /\ FILE_LIST' = Pass(db, cacheDir, "All")
  /\ opc' = "reported"
  /\ UNCHANGED <<filterVars, fnVars, flagVars, PROGRESS, storeVars,
                 outVars, listVars, taskVars, ops, oloc, lastRead>>

OpStatus ==
  /\ opc = "status"
  /\ LET key == ReportKey(oloc.op, oloc.cache_directory_result,
                          oloc.sql_database_result)
     IN update_status(Message(key, IF key = "failed-opening-file"
                                     THEN <<"error">>
                                     ELSE <<oloc.asset_a.name, oloc.asset_b.name>>))
  /\ opc' = "reported"
  /\ UNCHANGED <<FILE_LIST, filterVars, fnVars, flagVars, PROGRESS, storeVars,
                 outVars, listVars, taskVars, ops, oloc, lastRead>>

\* read_asset on another thread: the asset is not from_file and is
\* from_sql, so it is sql_database::read_asset, under CONNECTION's lock
DbRead ==
  /\ connLock = None
  /\ \E asset \in OpAssets :
       /\ ~asset.from_file /\ asset.from_sql
       /\ lastRead' = Some([asset |-> asset,
                            result |-> SqlReadAsset(asset.name),
                            uncommitted |-> tx # None])
  /\ UNCHANGED <<FILE_LIST, filterVars, fnVars, flagVars, displayVars,
                 storeVars, outVars, listVars, taskVars, ops, opc, oloc>>

(***************************************************************************)
(* filter_file_list(query), on the caller's thread.                        *)
(***************************************************************************)
\* the queries the caller types
Queries == {<<>>, <<"S">>, <<"0", "2">>}

\* char::to_lowercase, on the letters in use
ToLower(c) == IF c = "S" THEN "s" ELSE c

to_lowercase(str) == [n \in 1..Len(str) |-> ToLower(str[n])]

\* str::contains: the empty pattern is in every string
Contains(str, pattern) ==
  \E n \in 0..(Len(str) - Len(pattern)) : SubSeq(str, n + 1, n + Len(pattern)) = pattern

\* the test of one file: its name, or its alias in lower case, contains
\* the query
FilterMatches(file, query_lower) ==
  \/ Contains(file.name, query_lower)
  \/ Contains(to_lowercase(get_asset_alias(file.name)), query_lower)

\* query.to_lowercase(), and the filtered list is replaced by an empty one
FilterClear ==
  /\ fpc = "idle"
  /\ \E q \in Queries : query' = to_lowercase(q)
  /\ FILTERED_FILE_LIST' = <<>>
  /\ fpc' = "fill"
  /\ UNCHANGED <<FILE_LIST, fnVars, flagVars, displayVars, storeVars, outVars,
                 listVars, taskVars, opVars>>

\* get_file_list(), a copy of the index, and one push for each of its
\* files that passes the test; no other thread writes the filtered list
FilterFill ==
  /\ fpc = "fill"
  /\ FILTERED_FILE_LIST' = SelectSeq(FILE_LIST, LAMBDA file : FilterMatches(file, query))
  /\ fpc' = "idle"
  /\ UNCHANGED <<FILE_LIST, fnVars, flagVars, displayVars, storeVars, outVars,
                 listVars, taskVars, opVars, query>>

(***************************************************************************)
(* The state after construction.  open_database may have found no          *)
(* database: CONNECTION starts as None or as an open connection.           *)
(***************************************************************************)
StartWith(file_list, connections, directory, rows) ==
  /\ FILE_LIST = file_list
  /\ FILTERED_FILE_LIST = <<>>
  /\ STATUS = Idling
  /\ PROGRESS = <<1, 1>>
  /\ REQUEST_REPAINT = FALSE
  /\ LIST_TASK_RUNNING = FALSE
  /\ STOP_LIST_RUNNING = FALSE
  /\ TASK_RUNNING = FALSE
  /\ CONNECTION \in connections
  /\ connLock = None
  /\ db = Some(rows)
  /\ storageFolder = TRUE
  /\ cacheDir = directory
  /\ outDirs = {}
  /\ outFiles = {}
  /\ issued = 0
  /\ lpc = [i \in ListThreads |-> "idle"]
  /\ lloc = [i \in ListThreads |-> NewListLocals("All", FALSE)]
  /\ tissued = 0
  /\ tpc = [k \in Tasks |-> "idle"]
  /\ tloc = [k \in Tasks |-> None]
  /\ ops = 0
  /\ opc = "idle"
  /\ oloc = None
  /\ lastRead = None
  /\ fpc = "idle"
  /\ query = <<>>
  /\ tx = None
  /\ swapHist = <<>>
  /\ call = NoCall
  /\ ret = None

Start(file_list, connections, directory) ==
  StartWith(file_list, connections, directory, InitialRows)

Init == Start(<<>>, {None, Some(DbPath)}, InitialCacheDir)

(***************************************************************************)
(* The listing specification: the caller's refresh calls and their         *)
(* threads.                                                                *)
(***************************************************************************)
Next ==
  \E i \in UserRefresh : RefreshCall(i) \/ RefreshThread(i)

Spec == Init /\ [][Next]_vars

\* the listing specification with every spawned thread scheduled: a thread
\* that can take a step is not passed over for ever (its sleep in the wait
\* loop ends, and a mutex it waits for is handed to it once released)
SpecLive ==
  Init /\ [][Next]_vars /\ \A i \in UserRefresh : WF_vars(RefreshThread(i))

(***************************************************************************)
(* The task specification: the caller's extract_dir, extract_all and       *)
(* clear_cache calls, their threads, and the listing threads of            *)
(* refresh_before_extract.  It starts with the database open and the       *)
(* index a listing of the Sounds tab has left.                             *)
(***************************************************************************)
InitTask == Start(Listing("Sounds"), {Some(DbPath)}, InitialCacheDir)

NextTask ==
  \E k \in Tasks : TaskCall(k) \/ TaskStep(k) \/ RefreshThread(TaskRefresh(k))

SpecTask == InitTask /\ [][NextTask]_vars

(***************************************************************************)
(* The store specification: the caller's swap_assets and copy_assets      *)
(* calls, and database reads on another thread.                            *)
(***************************************************************************)
InitStore ==
  Start(Pass(Some(InitialRows), StoreCacheDir, "All"), {None, Some(DbPath)},
        StoreCacheDir)

NextStore ==
  \/ OpCall
  \/ OpDir
  \/ SqlSwapBegin
  \/ SqlSwapUpdateA
  \/ SqlSwapUpdateB
  \/ SqlSwapCommit
  \/ SqlCopyBegin
  \/ SqlCopyUpdate
  \/ OpStatus
  \/ DbRead

SpecStore == InitStore /\ [][NextStore]_vars

(***************************************************************************)
(* The caller's specification: one refresh call, one clear_cache call and  *)
(* filter_file_list calls, in any order and overlapping.                   *)
(***************************************************************************)
InitMix == Start(Listing("All"), {None, Some(DbPath)}, InitialCacheDir)

NextMix ==
  \/ RefreshCall(1)
  \/ RefreshPoll(1)
  \/ RefreshClaim(1)
  \/ RefreshClear(1)
  \/ SqlRefreshBegin(1)
  \/ SqlRefreshReport(1)
  \/ SqlRefreshEmit(1)
  \/ DirRefresh(1)
  \/ RefreshRelease(1)
  \/ RefreshIdling(1)
  \/ TaskCallOf(1, {"clear_cache"})
  \/ TaskCheck(1)
  \/ TaskSet(1)
  \/ SqlClearBegin(1)
  \/ SqlClearPath(1)
  \/ SqlClearCleanUp(1)
  \/ SqlClearRemove(1)
  \/ SqlClearReopen(1)
  \/ SqlClearFolder(1)
  \/ DirClear(1)
  \/ ClearCacheClear(1)
  \/ ClearCachePush(1)
  \/ TaskUnset(1)
  \/ TaskStatus(1)
  \/ FilterClear
  \/ FilterFill

SpecMix == InitMix /\ [][NextMix]_vars

(***************************************************************************)
(* The batch specification: one extract_dir call on its own, over a table  *)
(* with one more row, whose content has the PNG header at its first byte.  *)
(***************************************************************************)
BatchRows ==
  InitialRows
  \o << [id |-> <<3>>, size |-> 3, ttl |-> 300, content |-> <<80, 78, 71>>] >>

InitBatch ==
  StartWith(Pass(Some(BatchRows), InitialCacheDir, "All"), {Some(DbPath)},
            InitialCacheDir, BatchRows)

NextBatch ==
  \/ TaskCallOf(1, {"extract_dir"})
  \/ EdMkdir(1)
  \/ EdCheck(1)
  \/ EdSet(1)
  \/ EdConfig(1)
  \/ EdJoin(1)
  \/ EdSnapshot(1)
  \/ EdProgress(1)
  \/ EdExtract(1)
  \/ EdUnset(1)
  \/ EdStatus(1)
  \/ RefreshPoll(TaskRefresh(1))
  \/ RefreshClaim(TaskRefresh(1))
  \/ RefreshClear(TaskRefresh(1))
  \/ SqlRefreshBegin(TaskRefresh(1))
  \/ SqlRefreshReport(TaskRefresh(1))
  \/ SqlRefreshEmit(TaskRefresh(1))
  \/ DirRefresh(TaskRefresh(1))
  \/ RefreshRelease(TaskRefresh(1))
  \/ RefreshIdling(TaskRefresh(1))

SpecBatch == InitBatch /\ [][NextBatch]_vars

(***************************************************************************)
(* The scan specification: the refresh calls of Spec over a table with one *)
(* more row, whose content has its signature behind the first PREFIX_LEN   *)
(* bytes.                                                                  *)
(***************************************************************************)
ScanRows ==
  InitialRows
  \o << [id |-> <<3>>, size |-> PREFIX_LEN + 4, ttl |-> 300,
         content |-> [n \in 1..PREFIX_LEN |-> 0] \o OggS] >>

InitScan == StartWith(<<>>, {Some(DbPath)}, InitialCacheDir, ScanRows)

SpecScan == InitScan /\ [][Next]_vars

(***************************************************************************)
(* The functions called directly: find_header, extract_bytes,              *)
(* determine_category, read_asset and extract_to_file, each applied to the *)
(* content of the one row of the table, which the start draws from the     *)
(* byte strings made of at most MaxPieces pieces.  A behaviour is one call  *)
(* from the start, and extract_bytes once more on its own result.          *)
(***************************************************************************)
MaxPieces == 3

Pad8 == <<0, 0, 0, 0, 0, 0, 0, 0>>

Pieces ==
  {OggS, ID3, PNG, WEBP, KTX, Roblox, BinarySlash, ZSTD_MAGIC, <<0>>, <<4>>, Pad8}

Buffers == {Flatten(ps) : ps \in UNION {[1..n -> Pieces] : n \in 0..MaxPieces}}

\* the patterns extract_to_file passes to extract_bytes
Headers == Range(get_headers("All"))

StoredRow(bytes) ==
  << [id |-> <<1>>, size |-> Len(bytes), ttl |-> 100, content |-> bytes] >>

Stored == Unwrap(db)[1].content

\* sql_database::create_asset_info: the AssetInfo of a row, or None
SqlCreateAssetInfo(asset, category) ==
  IF CONNECTION = None \/ db = None \/ HexDecode(asset) = None THEN None
  ELSE LET n == RowIndex(Unwrap(db), Unwrap(HexDecode(asset)))
       IN IF n = None THEN None
          ELSE Some([name |-> asset, size |-> Unwrap(db)[Unwrap(n)].size,
                     last_modified |-> Some(Unwrap(db)[Unwrap(n)].ttl),
                     from_file |-> FALSE, from_sql |-> TRUE,
                     category |-> category])

\* the assets read_asset and extract_to_file are called with: the row's,
\* and one that is in neither backend
CallAssets(category) ==
  {Unwrap(SqlCreateAssetInfo(HexEncode(<<1>>), category)),
   [NoAsset EXCEPT !.category = category]}

\* the call and what it returned are recorded; it changes nothing else
Returned(c, r) ==
  /\ call' = c
  /\ ret' = r
  /\ UNCHANGED <<FILE_LIST, filterVars, flagVars, displayVars, storeVars,
                 listVars, taskVars, opVars>>

ApplyFindHeader ==
  /\ call = NoCall
  /\ \E category \in Range(Category) :
       Returned([fn |-> "find_header", category |-> category, bytes |-> Stored],
                find_header(category, Stored))
  /\ UNCHANGED outVars

ApplyExtractBytes ==
  /\ call = NoCall
  /\ \E header \in Headers :
       Returned([fn |-> "extract_bytes", header |-> header, bytes |-> Stored,
                 again |-> FALSE],
                extract_bytes(header, Stored))
  /\ UNCHANGED outVars

\* extract_bytes on what extract_bytes returned
ApplyExtractBytesAgain ==
  /\ call.fn = "extract_bytes"
  /\ ~call.again
  /\ ret # None
  /\ Returned([call EXCEPT !.bytes = Unwrap(ret), !.again = TRUE],
              extract_bytes(call.header, Unwrap(ret)))
  /\ UNCHANGED outVars

ApplyDetermineCategory ==
  /\ call = NoCall
  /\ Returned([fn |-> "determine_category", bytes |-> Stored],
              determine_category(Stored))
  /\ UNCHANGED outVars

ApplyReadAsset ==
  /\ call = NoCall
  /\ connLock = None
  /\ \E asset \in CallAssets("All") :
       Returned([fn |-> "read_asset", asset |-> asset], read_asset(asset))
  /\ UNCHANGED outVars

\* extract_to_file(asset, destination, true); fs::write fails when the
\* destination cannot be written
ApplyExtractToFile ==
  /\ call = NoCall
  /\ connLock = None
  /\ \E category \in Range(Category), writable \in BOOLEAN :
       \E asset \in CallAssets(category) :
         LET out == extract_to_file(asset, asset.name, writable)
         IN /\ Returned([fn |-> "extract_to_file", asset |-> asset,
                         writable |-> writable], out)
            /\ outFiles' = IF out.result = "ok" /\ IsSome(out.written)
                             THEN WriteFile(outFiles, Unwrap(out.written))
                             ELSE outFiles
  /\ UNCHANGED outDirs

InitPure ==
  \E bytes \in Buffers :
    StartWith(<<>>, {Some(DbPath)}, InitialCacheDir, StoredRow(bytes))

NextPure ==
  \/ ApplyFindHeader
  \/ ApplyExtractBytes
  \/ ApplyExtractBytesAgain
  \/ ApplyDetermineCategory
  \/ ApplyReadAsset
  \/ ApplyExtractToFile

SpecPure == InitPure /\ [][NextPure]_vars

(***************************************************************************)
(* The display: each frame of the window shows get_progress() and          *)
(* get_status() in its status bar and then polls get_request_repaint().    *)
(***************************************************************************)
\* the status bar: the progress and the status are read and shown
ShowStatusBar ==
  /\ call.fn # "status_bar"
  /\ call' = [fn |-> "status_bar", progress |-> PROGRESS, status |-> STATUS]
  /\ UNCHANGED <<FILE_LIST, filterVars, flagVars, displayVars, storeVars,
                 outVars, listVars, taskVars, opVars, ret>>

\* get_request_repaint: under the flag's lock, the flag is read, set to
\* false, and the value read is returned
GetRequestRepaint ==
  /\ call.fn = "status_bar"
  /\ call' = [call EXCEPT !.fn = "get_request_repaint"]
  /\ ret' = Some(REQUEST_REPAINT)
  /\ REQUEST_REPAINT' = FALSE
  /\ UNCHANGED <<FILE_LIST, filterVars, flagVars, STATUS, PROGRESS, storeVars,
                 outVars, listVars, taskVars, opVars>>

\* the display specification: the refresh calls of Spec, and the frames
NextPaint ==
  \/ Next
  \/ ShowStatusBar
  \/ GetRequestRepaint

SpecPaint == Init /\ [][NextPaint]_vars

(***************************************************************************)
(* Properties of the listing calls, checked under Spec.                    *)
(***************************************************************************)
\* the positions of a listing thread from its claim of LIST_TASK_RUNNING
\* to its release
ListingBody == {"clear", "sql", "q_report", "q_emit", "dir", "dir_next", "release"}

ListingActive == {i \in ListThreads : lpc[i] \in ListingBody}

\* C1: at most one listing task is between its claim of LIST_TASK_RUNNING
\* and its release at any time.
OneListingTask == Cardinality(ListingActive) <= 1

\* every refresh call is issued and every listing thread has ended
AllListed == issued = NumRefresh /\ \A i \in UserRefresh : lpc[i] = "done"

\* what an undisturbed pass over the stores as they are lists
CompletedPass(category) ==
  Pass(IF CONNECTION = None THEN None ELSE db, cacheDir, category)

\* C3: once the refresh calls issued one after the other have all ended,
\* the index holds the entries of exactly one of their passes, complete,
\* and never a mixture of two.
IndexIsOnePass ==
  AllListed => \E i \in UserRefresh : FILE_LIST = CompletedPass(lloc[i].category)

\* C4: once the refresh calls have all ended, the index holds the entries
\* of the call issued last.
NewestListingWins ==
  AllListed => FILE_LIST = CompletedPass(lloc[issued].category)

(***************************************************************************)
(* Properties of the mutating calls, checked under SpecTask.               *)
(***************************************************************************)
\* the positions of a mutating thread between its TASK_RUNNING := true and
\* its TASK_RUNNING := false
ClearBody ==
  {"sc_begin", "sc_path", "sc_cleanup", "sc_remove", "sc_reopen", "sc_rmdir",
   "dc_clear", "cc_clear", "cc_push", "unset"}

ExtractBody ==
  {"ed_config", "ed_join", "ed_snapshot", "ed_progress", "ed_extract", "ed_unset"}

InTaskBody(k) ==
  /\ tpc[k] \notin {"idle", "check", "set", "status", "done", "rejected", "panicked"}
  /\ \/ tloc[k].kind = "clear_cache" /\ tpc[k] \in ClearBody
     \/ tloc[k].kind = "extract_dir" /\ tpc[k] \in ExtractBody
     \/ tloc[k].kind = "extract_all"

\* C2: at most one mutating task body (clear_cache, extract_dir,
\* extract_all) runs at any time.
OneTaskBody == Cardinality({k \in Tasks : InTaskBody(k)}) <= 1

\* C5: an extract_dir call that finds TASK_RUNNING set and returns has
\* made no directory.
RejectedExtractWritesNothing ==
  \A k \in Tasks :
    (tpc[k] = "rejected" /\ tloc[k].kind = "extract_dir") => ~tloc[k].made_dir

\* an entry of the index has a file of its name in the destination
Written(asset) == \E f \in outFiles : f.path[1] = asset.name

\* C6: when extract_all, called on its own, has reported its completion,
\* a file is written for every asset of the index.
ExtractAllWritesIndex ==
  (tissued = 1 /\ tloc[1].kind = "extract_all" /\ tpc[1] = "done"
     /\ STATUS = Message("all-extracted", <<>>))
  => \A n \in 1..Len(FILE_LIST) : Written(FILE_LIST[n])

(***************************************************************************)
(* Properties of swap_assets and copy_assets, checked under SpecStore.     *)
(***************************************************************************)
\* the database backend's call has returned to the coordinator
SqlReturned(op, result) ==
  /\ opc = "status"
  /\ oloc.op = op
  /\ oloc.sql_database_result = result

IdA == HexDecode(oloc.asset_a.name)

IdB == HexDecode(oloc.asset_b.name)

\* the table with the contents of the rows id_a and id_b exchanged
Exchanged(table, id_a, id_b) ==
  Some([n \in 1..Len(Unwrap(table)) |->
          IF Unwrap(table)[n].id = id_a
            THEN [Unwrap(table)[n] EXCEPT !.content = Unwrap(SelectContent(table, id_b))]
            ELSE IF Unwrap(table)[n].id = id_b
              THEN [Unwrap(table)[n] EXCEPT !.content = Unwrap(SelectContent(table, id_a))]
              ELSE Unwrap(table)[n]])

\* C7: the database's swap is atomic: returned Ok, both rows hold each
\* other's former content; returned Err (an absent or undecodable id, or
\* a failed statement), the table is as it was; and no database
\* read_asset runs while a transaction has written and not committed.
SwapAtomic ==
  /\ SqlReturned("swap", "ok") => db = Exchanged(oloc.before, Unwrap(IdA), Unwrap(IdB))
  /\ SqlReturned("swap", "err") => db = oloc.before
  /\ lastRead # None => ~Unwrap(lastRead).uncommitted
  /\ tx # None => connLock = Some(Caller)

\* a swap of two distinct rows of different content returned Err although
\* both rows are there, so a statement or the commit failed, while a read
\* had been served
SwapRolledBack ==
  /\ SqlReturned("swap", "err")
  /\ CONNECTION # None
  /\ IdA # None /\ IdB # None /\ IdA # IdB
  /\ SelectContent(db, Unwrap(IdA)) # None
  /\ SelectContent(db, Unwrap(IdB)) # None
  /\ SelectContent(db, Unwrap(IdA)) # SelectContent(db, Unwrap(IdB))
  /\ lastRead # None

\* two swaps of the same pair returned Ok, one right after the other
SwappedTwice ==
  /\ SqlReturned("swap", "ok")
  /\ Len(swapHist) = 2
  /\ swapHist[1].a = swapHist[2].a
  /\ swapHist[1].b = swapHist[2].b

\* C8: swap(a, b) followed immediately by swap(a, b) leaves the table as
\* it was before the first.
SwapInvolution == SwappedTwice => db = swapHist[1].before

\* two swaps of two distinct rows of different content, the first of which
\* changed the table
SwappedTwiceDistinct ==
  /\ SwappedTwice
  /\ swapHist[1].a # swapHist[1].b
  /\ swapHist[2].before # swapHist[1].before

\* C9: the database's copy returned Ok: b's row holds the content a's row
\* had, and every other row is as it was; returned Err: no row changed.
CopyWritesB ==
  /\ SqlReturned("copy", "ok") =>
       /\ SelectContent(db, Unwrap(IdB)) = SelectContent(oloc.before, Unwrap(IdA))
       /\ \A n \in 1..Len(Unwrap(db)) :
            Unwrap(db)[n].id # Unwrap(IdB) => Unwrap(db)[n] = Unwrap(oloc.before)[n]
  /\ SqlReturned("copy", "err") => db = oloc.before

\* the status is the call's success message
ReportedSuccess ==
  STATUS.key = (IF oloc.op = "swap" THEN "swapped" ELSE "copied")

\* C10: swap_assets and copy_assets attempt both backends, whatever the
\* first returned; the status is the success message exactly when one of
\* the two returned Ok, and the failure message exactly when both failed.
BothAttemptedEitherSucceeds ==
  /\ opc \in {"status", "reported"} =>
       /\ oloc.cache_directory_result # "pending"
       /\ oloc.sql_database_result # "pending"
  /\ opc = "reported" =>
       /\ ReportedSuccess <=> (oloc.cache_directory_result = "ok"
                               \/ oloc.sql_database_result = "ok")
       /\ STATUS.key = "failed-opening-file"
            <=> (oloc.cache_directory_result = "err"
                 /\ oloc.sql_database_result = "err")

\* a call whose directory attempt failed and whose database attempt
\* succeeded has reported
ReportedOneSuccess ==
  /\ opc = "reported"
  /\ oloc.cache_directory_result = "err"
  /\ oloc.sql_database_result = "ok"
  /\ ReportedSuccess

\* the backend has been called with the assets of the call
Attempted(result) == opc # "idle" /\ result # "pending"

\* C11: callers route by origin: read_asset, swap_assets and copy_assets
\* pass no asset of directory origin to the database backend and no asset
\* of database origin to the directory backend.
RoutedByOrigin ==
  /\ lastRead # None => ~Unwrap(lastRead).asset.from_file
  /\ opc # "idle" =>
       /\ Attempted(oloc.sql_database_result) =>
            ~oloc.asset_a.from_file /\ ~oloc.asset_b.from_file
       /\ Attempted(oloc.cache_directory_result) =>
            ~oloc.asset_a.from_sql /\ ~oloc.asset_b.from_sql

(***************************************************************************)
(* Properties of the index, checked under SpecMix.                         *)
(***************************************************************************)
\* C12: when a clear_cache thread ends, the index is the placeholder and
\* nothing else.
ClearLeavesPlaceholder ==
  [][\A k \in Tasks :
       (tpc[k] = "status" /\ tloc[k].kind = "clear_cache" /\ tpc'[k] = "done")
       => FILE_LIST' = <<create_no_files>>]_vars

\* C19: every entry of the filtered index is an entry of the index.
FilteredWithinIndex ==
  \A n \in 1..Len(FILTERED_FILE_LIST) :
    \E m \in 1..Len(FILE_LIST) : FILE_LIST[m] = FILTERED_FILE_LIST[n]

\* the positions of sql_database::clear_cache
SqlClearBody ==
  {"sc_begin", "sc_path", "sc_cleanup", "sc_remove", "sc_reopen", "sc_rmdir"}

\* C13: a clear_cache run calls the directory backend's clear after the
\* database backend's, whatever the database backend's clear met: each of
\* its steps leads on towards the directory's clear, and the index is
\* reset only from there.
ClearCallsBothBackends ==
  [][\A k \in Tasks :
       /\ (tpc[k] \in SqlClearBody /\ tpc'[k] # tpc[k])
            => tpc'[k] \in SqlClearBody \cup {"dc_clear"}
       /\ (tpc'[k] = "cc_clear" /\ tpc[k] # "cc_clear")
            => tpc[k] = "dc_clear"]_vars

\* the database backend's clear failed to delete, or had no connection,
\* and the directory backend's clear has been called
ClearedAfterFailure ==
  \E k \in Tasks :
    /\ tpc[k] = "cc_clear"
    /\ \/ STATUS.key = "failed-deleting-file"
       \/ CONNECTION = None /\ db # None /\ STATUS.key = "deleting-files"

(***************************************************************************)
(* Properties of the mutating calls, continued (SpecTask).                 *)
(***************************************************************************)
\* C14: a clear_cache call that finds TASK_RUNNING set is dropped: its
\* step changes no store and not the index, no thread is spawned, and it
\* is never run later.
RejectedClearDropped ==
  [][\A k \in Tasks :
       /\ (tpc[k] = "check" /\ tloc[k].kind = "clear_cache" /\ TASK_RUNNING
             /\ tpc'[k] # tpc[k])
            => /\ tpc'[k] = "rejected"
               /\ UNCHANGED <<FILE_LIST, filterVars, storeVars, displayVars>>
       /\ tpc[k] = "rejected" => (tpc'[k] = "rejected" /\ tloc'[k] = tloc[k])]_vars

\* a clear_cache call was rejected, and the task that was running has
\* ended since
ClearRejectedAndTaskEnded ==
  \E k \in Tasks :
    /\ tpc[k] = "rejected"
    /\ tloc[k].kind = "clear_cache"
    /\ ~TASK_RUNNING
    /\ \A j \in Tasks : j # k => tpc[j] = "done"

(***************************************************************************)
(* Properties of extract_dir.                                              *)
(***************************************************************************)
\* the extraction thread of call k has ended
BatchEnded(k) ==
  /\ tpc[k] \in {"done", "panicked"}
  /\ tloc[k].kind = "extract_dir"
  /\ tloc[k].spawned

\* C15 (SpecBatch): a failing entry does not abort the batch: when the
\* extraction thread has ended, TASK_RUNNING is cleared and the status is
\* all-extracted.
BatchCompletes ==
  \A k \in Tasks :
    (tpc[k] # "idle" /\ BatchEnded(k))
    => (~TASK_RUNNING /\ STATUS = Message("all-extracted", <<>>))

\* an entry of the index is of the category extract_dir was called with
OfCategory(entry, category) == category = "All" \/ entry.category = category

\* C16 (SpecTask): extract_dir(destination, category), called on its own,
\* writes no asset of the index that is of another category, and has
\* written every asset of the category when it ends.
ExtractsCategoryOnly ==
  (tissued = 1 /\ tloc[1].kind = "extract_dir")
  => /\ \A n \in 1..Len(FILE_LIST) :
          Written(FILE_LIST[n]) => OfCategory(FILE_LIST[n], tloc[1].category)
     /\ tpc[1] = "done" =>
          \A n \in 1..Len(FILE_LIST) :
            OfCategory(FILE_LIST[n], tloc[1].category) => Written(FILE_LIST[n])

(***************************************************************************)
(* Properties of the database connection.                                  *)
(***************************************************************************)
\* C17 (Spec): with no database connection, a database read_asset of any
\* asset fails, and a refresh call that has ended, called on its own,
\* leaves its no-connection failure as the status.
NoConnectionVisible ==
  (CONNECTION = None /\ issued = 1 /\ lpc[1] = "done")
  => /\ \A asset \in OpAssets : SqlReadAsset(asset.name) = None
     /\ STATUS.key = "failed-opening-file"

\* C18 (SpecMix): no step of refresh, clear_cache or filter_file_list opens
\* a closed connection; none of them calls open_database.
ReopenOnlyByOpenDatabase == [][CONNECTION = None => CONNECTION' = None]_vars

(***************************************************************************)
(* Properties of get_headers.                                              *)
(***************************************************************************)
\* the patterns of a sequence, each kept where it is first seen
RECURSIVE FirstSeen(_)
FirstSeen(patterns) ==
  IF patterns = <<>> THEN <<>>
  ELSE LET rest == FirstSeen(SubSeq(patterns, 1, Len(patterns) - 1))
           last == patterns[Len(patterns)]
       IN IF \E n \in 1..Len(rest) : rest[n] = last THEN rest
          ELSE Append(rest, last)

\* C20: the headers a listing of All works with, get_headers(All), are
\* the union of the concrete categories' headers in first-seen order, no
\* pattern twice and none empty.
HeadersOfAllDeduplicated ==
  \A i \in ListThreads :
    (lpc[i] # "idle" /\ lloc[i].category = "All")
    => LET all == get_headers(lloc[i].category)
           concrete == SelectSeq(Category, LAMBDA c : c # "All")
       IN /\ all = FirstSeen(SelectSeq(FlatHeaders(concrete),
                                       LAMBDA item : item # <<>>))
          /\ \A m, n \in 1..Len(all) : all[m] = all[n] => m = n
          /\ \A n \in 1..Len(all) : all[n] # <<>>

(***************************************************************************)
(* Properties of the functions called directly, checked under SpecPure.    *)
(***************************************************************************)
\* the pattern occurs somewhere in bytes
Occurs(pattern, bytes) ==
  \E at \in 0..(Len(bytes) - Len(pattern)) :
    \A n \in 1..Len(pattern) : bytes[at + n] = pattern[n]

\* the earliest offset at which the pattern occurs
EarliestAt(pattern, bytes) ==
  CHOOSE at \in 0..(Len(bytes) - Len(pattern)) :
    /\ \A n \in 1..Len(pattern) : bytes[at + n] = pattern[n]
    /\ \A before \in 0..(at - 1) :
         \E n \in 1..Len(pattern) : bytes[before + n] # pattern[n]

\* C21: find_header returns the first pattern, in the category's catalog
\* order, that occurs anywhere in bytes, wherever the later-listed ones
\* occur, and fails exactly when no pattern of the category occurs.
FirstListedHeaderWins ==
  call.fn = "find_header" =>
    LET headers == get_headers(call.category)
    IN /\ (ret = None) <=> (\A k \in 1..Len(headers) : ~Occurs(headers[k], call.bytes))
       /\ ret # None =>
            \E k \in 1..Len(headers) :
              /\ headers[k] = Unwrap(ret)
              /\ Occurs(headers[k], call.bytes)
              /\ \A j \in 1..(k - 1) : ~Occurs(headers[j], call.bytes)

\* find_header returned a pattern although a pattern listed after it
\* occurs at an earlier offset
LaterListedOccursEarlier ==
  /\ call.fn = "find_header"
  /\ ret # None
  /\ \E j \in 1..Len(get_headers(call.category)) :
       LET later == get_headers(call.category)[j]
       IN /\ later # Unwrap(ret)
          /\ Occurs(later, call.bytes)
          /\ EarliestAt(later, call.bytes) < EarliestAt(Unwrap(ret), call.bytes)

\* the backward offset of a signature
BackwardOffset(signature) ==
  IF signature \in {PNG, KTX} THEN 1 ELSE IF signature = WEBP THEN 8 ELSE 0

\* C22: for every signature and every buffer in which it occurs,
\* extract_bytes returns the suffix of the buffer that starts at the
\* signature's earliest offset minus its backward offset.
ExtractsFromBackwardOffset ==
  (call.fn = "extract_bytes" /\ Occurs(call.header, call.bytes)) =>
    LET start == EarliestAt(call.header, call.bytes) - BackwardOffset(call.header)
    IN /\ start >= 0
       /\ ret = Some(SubSeq(call.bytes, start + 1, Len(call.bytes)))

\* C23: extract_bytes on its own output returns that output, for every
\* signature and buffer where the signature occurs at an offset no smaller
\* than its backward offset.
ExtractBytesIdempotent ==
  (call.fn = "extract_bytes" /\ call.again
     /\ Occurs(call.header, Stored)
     /\ EarliestAt(call.header, Stored) >= BackwardOffset(call.header))
  => ret = Some(call.bytes)

\* extract_bytes ran on its own output, which was a proper suffix cut
\* before the signature
TrimmedTwice ==
  /\ call.fn = "extract_bytes"
  /\ call.again
  /\ Occurs(call.header, Stored)
  /\ BackwardOffset(call.header) > 0
  /\ Len(call.bytes) < Len(Stored)

\* C24 as claimed: for every buffer that contains ID3 and not binary/,
\* determine_category returns All.
Id3WithoutBinaryIsAll ==
  (call.fn = "determine_category"
     /\ Occurs(ID3, call.bytes) /\ ~Occurs(BinarySlash, call.bytes))
  => ret = "All"

\* C24, amended: for every buffer that contains ID3, not binary/, and no
\* other signature (OggS, PNG, WEBP, KTX, <roblox!), determine_category
\* returns All.
Id3AloneIsAll ==
  (call.fn = "determine_category"
     /\ Occurs(ID3, call.bytes) /\ ~Occurs(BinarySlash, call.bytes)
     /\ \A other \in {OggS, PNG, WEBP, KTX, Roblox} : ~Occurs(other, call.bytes))
  => ret = "All"

\* determine_category was called on a buffer with ID3 in it, more bytes
\* around it, and neither binary/ nor another signature
Id3AloneClassified ==
  /\ call.fn = "determine_category"
  /\ Occurs(ID3, call.bytes)
  /\ Len(call.bytes) > Len(ID3)
  /\ ~Occurs(BinarySlash, call.bytes)
  /\ \A other \in {OggS, PNG, WEBP, KTX, Roblox} : ~Occurs(other, call.bytes)

\* the stored bytes start with the four bytes of the container's magic
StartsWithMagic(bytes) ==
  Len(bytes) >= 4 /\ \A n \in 1..4 : bytes[n] = ZSTD_MAGIC[n]

\* C25: read_asset's decompression fails open: stored bytes that do not
\* start with the magic number (or are shorter than four bytes) are
\* returned unchanged, bytes that start with it and do not decode are
\* returned unchanged, and read_asset of a stored row never fails.
DecompressionFailsOpen ==
  (call.fn = "read_asset" /\ call.asset.from_sql) =>
    /\ ret # None
    /\ ~StartsWithMagic(Stored) => ret = Some(Stored)
    /\ (StartsWithMagic(Stored) /\ ZstdDecodeAll(Stored) = None) => ret = Some(Stored)

\* read_asset was called on a row whose bytes start with the magic number
\* and do not decode
UndecodableRead ==
  /\ call.fn = "read_asset"
  /\ call.asset.from_sql
  /\ StartsWithMagic(Stored)
  /\ ZstdDecodeAll(Stored) = None

\* C29: extract_to_file returns an error when reading the asset fails and
\* when writing the output file fails, and Ok(destination) only if the
\* output file was written.
WriteFailureSurfaced ==
  call.fn = "extract_to_file" =>
    /\ read_asset(call.asset) = None => ret.result = "err"
    /\ ~call.writable => ret.result # "ok"
    /\ ret.result = "ok" => (IsSome(ret.written) /\ Unwrap(ret.written) \in outFiles)

\* C30: extract_bytes is total: for every signature and buffer it returns
\* a suffix of the buffer, also when the signature's earliest offset is
\* smaller than its backward offset, and the buffer itself when the
\* signature does not occur.
ExtractBytesTotal ==
  call.fn = "extract_bytes" =>
    /\ ret # None
    /\ \E start \in 0..Len(call.bytes) :
         Unwrap(ret) = SubSeq(call.bytes, start + 1, Len(call.bytes))
    /\ ~Occurs(call.header, call.bytes) => ret = Some(call.bytes)

(***************************************************************************)
(* Properties of the database backend's listing pass.                      *)
(***************************************************************************)
\* C26 (SpecScan): a database listing pass for a category other than
\* Music, run to its end on its own with the connection open, has emitted
\* an entry for every row whose decompressed content contains a signature
\* of the category, wherever in the content, and for no other row.
ScanListsEveryMatch ==
  (issued = 1 /\ lpc[1] = "done" /\ lloc[1].category # "Music"
     /\ CONNECTION # None)
  => \A n \in 1..Len(Unwrap(db)) :
       LET row == Unwrap(db)[n]
           content == ScanDecompress(row.content)
       IN (\E k \in 1..Len(get_headers(lloc[1].category)) :
             Occurs(get_headers(lloc[1].category)[k], content))
          <=> (\E m \in 1..Len(FILE_LIST) :
                 FILE_LIST[m].from_sql /\ FILE_LIST[m].name = HexEncode(row.id))

\* C27 (Spec): a database scan that is running when a newer refresh sets
\* STOP_LIST_RUNNING leaves its loop over the rows early: once the flag is
\* set, a scan that has finished a row begins no further row.
StopEndsDatabaseScan ==
  [][\A i \in ListThreads :
       (STOP_LIST_RUNNING /\ lpc[i] = "q_emit" /\ lpc'[i] # lpc[i])
       => lpc'[i] # "q_report"]_vars

(***************************************************************************)
(* The locks of the statics.                                               *)
(***************************************************************************)
\* the mutexes a listing thread holds together, one set for each critical
\* section of the step at the position
CriticalSections(pc) ==
  CASE pc = "poll" -> {{"LIST_TASK_RUNNING"}}
    [] pc = "signal" -> {{"STOP_LIST_RUNNING"}}
    [] pc = "claim" -> {{"LIST_TASK_RUNNING", "STOP_LIST_RUNNING"}}
    [] pc = "clear" -> {{"FILE_LIST"}}
    [] pc = "sql" -> {{"CONNECTION", "STATUS", "REQUEST_REPAINT"}}
    [] pc = "q_report" -> {{"CONNECTION", "PROGRESS", "REQUEST_REPAINT"},
                           {"CONNECTION", "STATUS", "REQUEST_REPAINT"}}
    [] pc = "q_emit" -> {{"CONNECTION", "FILE_LIST"}}
    [] pc \in {"dir", "dir_next"} -> {{"STOP_LIST_RUNNING"}, {"FILE_LIST"}}
    [] pc = "release" -> {{"LIST_TASK_RUNNING"}}
    [] pc = "idling" -> {{"STATUS", "REQUEST_REPAINT"}}
    [] OTHER -> {}

\* the locks of the index, the filtered index, the status, the progress
\* and the three flags
GuardedLocks ==
  {"FILE_LIST", "FILTERED_FILE_LIST", "STATUS", "PROGRESS",
   "LIST_TASK_RUNNING", "TASK_RUNNING", "STOP_LIST_RUNNING"}

\* C28 (Spec): no critical section of a listing thread holds more than one
\* of the locks of the index, the filtered index, the status, the progress
\* and the three flags at the same time.
OneGuardedLockAtATime ==
  \A i \in ListThreads :
    \A section \in CriticalSections(lpc[i]) :
      Cardinality(section \cap GuardedLocks) <= 1


(***************************************************************************)
(* Properties of the task flag.                                            *)
(***************************************************************************)
\* C31 (SpecBatch): every mutating task that has started resets
\* TASK_RUNNING: once the thread of a started task has ended, whatever the
\* index and the asset bytes are, TASK_RUNNING is false.
EndedTaskResetsFlag ==
  \A k \in Tasks :
    (tpc[k] \in {"done", "panicked"} /\ tloc[k].spawned) => ~TASK_RUNNING


(***************************************************************************)
(* Termination of refresh.                                                 *)
(***************************************************************************)
\* every refresh call issued so far has finished
AllStartedListed == \A i \in UserRefresh : lpc[i] \in {"idle", "done"}

\* C32 (SpecLive): under fair scheduling every refresh call leaves its wait
\* loop, runs its pass and finishes, and whenever all the calls issued have
\* finished LIST_TASK_RUNNING and STOP_LIST_RUNNING are both false.
RefreshTerminates ==
  /\ \A i \in UserRefresh : (lpc[i] # "idle") ~> (lpc[i] = "done")
  /\ [](AllStartedListed => (~LIST_TASK_RUNNING /\ ~STOP_LIST_RUNNING))

\* a call has finished its pass while another, which has set
\* STOP_LIST_RUNNING in its wait loop, is about to leave the loop
WaiterOutlivesPass ==
  \E i, j \in UserRefresh :
    /\ lpc[i] = "done"
    /\ lpc[j] = "poll"
    /\ STOP_LIST_RUNNING
    /\ ~LIST_TASK_RUNNING


(***************************************************************************)
(* Waiting: locks, joins and the wait loop.                                *)
(***************************************************************************)
\* the locks a listing thread's step takes, each sequence in the order of
\* acquisition, every lock of a sequence held until the last is released
ListAcquires(pc) ==
  CASE pc = "poll" -> {<<"LIST_TASK_RUNNING">>}
    [] pc = "signal" -> {<<"STOP_LIST_RUNNING">>}
    [] pc = "claim" -> {<<"LIST_TASK_RUNNING", "STOP_LIST_RUNNING">>}
    [] pc = "clear" -> {<<"FILE_LIST">>}
    [] pc = "sql" -> {<<"CONNECTION", "STATUS", "REQUEST_REPAINT">>}
    [] pc = "q_report" -> {<<"CONNECTION", "PROGRESS", "REQUEST_REPAINT">>,
                           <<"CONNECTION", "STATUS", "REQUEST_REPAINT">>}
    [] pc = "q_emit" -> {<<"CONNECTION", "FILE_LIST">>}
    [] pc \in {"dir", "dir_next"} -> {<<"STOP_LIST_RUNNING">>, <<"FILE_LIST">>}
    [] pc = "release" -> {<<"LIST_TASK_RUNNING">>}
    [] pc = "idling" -> {<<"STATUS", "REQUEST_REPAINT">>}
    [] OTHER -> {}


\* the same for a step of clear_cache, extract_dir or extract_all
TaskAcquires(pc) ==
  CASE pc \in {"check", "ed_check", "set", "ed_set", "unset", "ed_unset"} ->
         {<<"TASK_RUNNING">>}
    [] pc \in {"sc_begin", "sc_remove", "sc_rmdir"} ->
         {<<"PROGRESS", "REQUEST_REPAINT">>, <<"STATUS", "REQUEST_REPAINT">>}
    [] pc \in {"sc_path", "sc_cleanup", "sc_reopen"} -> {<<"CONNECTION">>}
    [] pc \in {"cc_clear", "cc_push", "ed_snapshot"} -> {<<"FILE_LIST">>}
    [] pc = "ed_progress" -> {<<"PROGRESS", "REQUEST_REPAINT">>}
    [] pc = "ed_extract" -> {<<"CONNECTION">>, <<"STATUS", "REQUEST_REPAINT">>}
    [] pc \in {"status", "ed_status"} -> {<<"STATUS", "REQUEST_REPAINT">>}
    [] OTHER -> {}

\* the pairs <<outer, inner>> of a sequence of acquisitions
HeldBefore(locks) ==
  {<<locks[at[1]], locks[at[2]]>> :
     at \in {pair \in (1..Len(locks)) \X (1..Len(locks)) : pair[1] < pair[2]}}

\* the lock order of the steps the threads are about to take
HeldOrder ==
  UNION {HeldBefore(locks) :
           locks \in UNION ({ListAcquires(lpc[i]) : i \in ListThreads}
                            \cup {TaskAcquires(tpc[k]) : k \in Tasks})}

\* a set of locks each of which is taken while another of the set is held
Cyclic(order) ==
  \E locks \in SUBSET {pair[1] : pair \in order} :
    /\ locks # {}
    /\ \A inner \in locks : \E outer \in locks : <<outer, inner>> \in order

\* the threads that have not ended
LiveTask(k) == tpc[k] \notin {"idle", "done", "rejected", "panicked"}
LiveList(i) == lpc[i] \notin {"idle", "done"}

\* a listing thread that goes round its wait loop
InWaitLoop(i) == lpc[i] \in {"poll", "signal"} /\ LIST_TASK_RUNNING

\* a listing thread that waits for CONNECTION
ListWaitsForLock(i) ==
  lpc[i] = "sql" /\ lloc[i].category # "Music" /\ connLock # None

\* a task's thread that waits for CONNECTION, or in its join
TaskWaits(k) ==
  \/ tpc[k] \in {"sc_path", "sc_cleanup", "sc_reopen"} /\ connLock # None
  \/ /\ tpc[k] = "ed_extract"
     /\ tloc[k].file_list[tloc[k].count].from_sql
     /\ ~tloc[k].file_list[tloc[k].count].from_file
     /\ connLock # None
  \/ tpc[k] = "ed_join" /\ lpc[TaskRefresh(k)] # "done"

NoDatabaseMusic ==
  /\ \A n \in 1..Len(FILE_LIST) :
       FILE_LIST[n].from_sql => FILE_LIST[n].category # "Music"
  /\ call.fn \in {"read_asset", "extract_to_file"}
       => ~(call.asset.from_sql /\ call.asset.category = "Music")
  /\ call.fn = "determine_category" => ret # "Music"


(***************************************************************************)
(* Properties of the database backend's clear.                             *)
(***************************************************************************)
\* C35 (SpecTask): in the database backend's clear the connection is
\* released before the deletion of the database file is attempted and
\* reopened only after the attempt: when a clearing thread is about to
\* delete the file, CONNECTION is None.
ClosedWhileDeleting ==
  \A k \in Tasks : tpc[k] = "sc_remove" => CONNECTION = None


(***************************************************************************)
(* Properties of the repaint flag.                                         *)
(***************************************************************************)
\* a frame's poll: the step from the status bar to get_request_repaint
PollStep == call.fn = "status_bar" /\ call'.fn = "get_request_repaint"

InUnitInterval(progress) ==
  /\ progress[2] > 0
  /\ 0 <= progress[1]
  /\ progress[1] <= progress[2]

\* C37 (SpecTask): the progress is within [0, 1] in every reachable state:
\* extract_dir sets count / total with 1 <= count <= total, the database
\* scan sets count / total with 0 <= count < total and total not zero, and
\* the database clear sets 0, 0.5 and 1.
ProgressInUnitInterval ==
  /\ []InUnitInterval(PROGRESS)
  /\ [][/\ \A k \in Tasks :
            (tpc[k] = "ed_progress" /\ tpc'[k] = "ed_extract")
            => (1 <= PROGRESS'[1] /\ PROGRESS'[1] <= PROGRESS'[2])
       /\ \A i \in ListThreads :
            (lpc[i] = "q_report" /\ lpc'[i] = "q_emit")
            => (0 <= PROGRESS'[1] /\ PROGRESS'[1] < PROGRESS'[2])
       /\ \A k \in Tasks :
            /\ (tpc[k] = "sc_begin" /\ tpc'[k] # "sc_begin")
                 => PROGRESS' = <<0, 1>>
            /\ (tpc[k] = "sc_remove" /\ tpc'[k] # "sc_remove")
                 => PROGRESS' = <<1, 2>>
            /\ (tpc[k] = "sc_rmdir" /\ tpc'[k] # "sc_rmdir"
                   /\ IsSome(tloc[k].path))
                 => PROGRESS' = <<1, 1>>]_vars

\* extract_dir has set the progress for the last entry of its copy of the
\* index
ProgressOfLastEntry ==
  \E k \in Tasks :
    /\ tpc[k] = "ed_extract"
    /\ tloc[k].count = Len(tloc[k].file_list)
    /\ PROGRESS = <<tloc[k].count, Len(tloc[k].file_list)>>


(***************************************************************************)
(* The frame of swap_assets and copy_assets.                               *)
(***************************************************************************)
\* a step of a swap_assets or copy_assets call
SwapOrCopyStep ==
  \/ opc' # opc
  \/ oloc' # oloc
  \/ tx' # tx
  \/ db' # db
  \/ cacheDir' # cacheDir

\* C38 (SpecStore): swap_assets and copy_assets, whether they succeed or
\* fail, leave the index, the filtered index and the task flags (and the
\* progress) unchanged: no AssetInfo of the index is updated.
SwapCopyFrame ==
  [][SwapOrCopyStep
     => UNCHANGED <<FILE_LIST, FILTERED_FILE_LIST, LIST_TASK_RUNNING,
                    STOP_LIST_RUNNING, TASK_RUNNING, PROGRESS>>]_vars

\* a swap has changed the table and reported, and the index is not what a
\* listing of the stores would give now
IndexStaleAfterSwap ==
  /\ opc = "reported"
  /\ oloc.op = "swap"
  /\ oloc.sql_database_result = "ok"
  /\ db # oloc.before
  /\ FILE_LIST # Pass(db, cacheDir, "All")

=============================================================================
